---------------------------- MODULE Spec2Model ----------------------------
(***************************************************************************)
(* The diagnostic verifier of lib/Frontend/DiagnosticVerifier.cpp          *)
(* (-verify mode): the capture hook, verifyFile (annotation scanner, the   *)
(* three matching phases, sorting and printing of the reports) and         *)
(* autoApplyFixes.                                                         *)
(*                                                                         *)
(* Text is a sequence of one-character strings.  A position in a buffer is *)
(* its 0-based byte offset, as the pointer differences of the source are;  *)
(* a StringRef is the pair [b, e) of offsets of its first byte and of the  *)
(* byte after its last one.                                                *)
(***************************************************************************)
EXTENDS Integers, Sequences, FiniteSets, TLC

(***************************************************************************)
(* Bounds of the model.                                                    *)
(***************************************************************************)
\* The largest number of diagnostics the producing tool emits in one run.
MaxPool == 3
\* The largest number of reports handed directly to autoApplyFixes.
MaxFix == 3
\* The largest count written in an annotation.
MaxCount == 3
\* The largest line offset written in an annotation.
MaxOffset == 2
\* The longest replacement text of a fix-it clause.
MaxText == 3

(***************************************************************************)
(* llvm::StringRef                                                         *)
(***************************************************************************)
\* StringRef::npos, the "not found" index (the largest size_t in the source).
NPOS == -1

Min(S) == CHOOSE x \in S : \A y \in S : x <= y
Max(S) == CHOOSE x \in S : \A y \in S : x >= y

\* The characters StringRef::trim, ltrim and rtrim remove by default.
Whitespace == {" ", "\t", "\n", "\f", "\r"}
Blank == {" ", "\t"}
Newlines == {"\r", "\n"}

size(r) == r.e - r.b
\* The text a StringRef denotes.
str(text, r) == SubSeq(text, r.b + 1, r.e)
\* StringRef::operator[]
at(text, r, k) == text[r.b + k + 1]
\* StringRef::substr(Start): Start is clamped to the length; npos is the
\* largest index there is.
substr(r, start) ==
  IF start = NPOS \/ start > size(r) THEN [b |-> r.e, e |-> r.e]
  ELSE [b |-> r.b + start, e |-> r.e]
\* StringRef::slice(Start, End): both clamped.
slice(r, start, end) ==
  LET s == IF start = NPOS \/ start > size(r) THEN size(r) ELSE start
      t0 == IF end = NPOS THEN size(r) ELSE end
      t == Min({Max({s, t0}), size(r)})
  IN  [b |-> r.b + s, e |-> r.b + t]
\* StringRef::startswith
startswith(text, r, pat) ==
  /\ size(r) >= Len(pat)
  /\ \A j \in 1..Len(pat) : text[r.b + j] = pat[j]
\* StringRef::find(Str, From)
find(text, r, pat, from) ==
  LET hits == {k \in from..(size(r) - Len(pat)) :
                 \A j \in 1..Len(pat) : text[r.b + k + j] = pat[j]}
  IN  IF hits = {} THEN NPOS ELSE Min(hits)
\* StringRef::find_first_not_of
find_first_not_of(text, r, chars) ==
  LET hits == {k \in 0..(size(r) - 1) : text[r.b + k + 1] \notin chars}
  IN  IF hits = {} THEN NPOS ELSE Min(hits)
\* StringRef::find_first_of
find_first_of(text, r, chars) ==
  LET hits == {k \in 0..(size(r) - 1) : text[r.b + k + 1] \in chars}
  IN  IF hits = {} THEN NPOS ELSE Min(hits)
\* StringRef::find_last_of
find_last_of(text, r, chars) ==
  LET hits == {k \in 0..(size(r) - 1) : text[r.b + k + 1] \in chars}
  IN  IF hits = {} THEN NPOS ELSE Max(hits)
\* StringRef::ltrim(Chars)
ltrim(text, r, chars) ==
  LET k == find_first_not_of(text, r, chars)
  IN  IF k = NPOS THEN [b |-> r.e, e |-> r.e] ELSE [b |-> r.b + k, e |-> r.e]
\* StringRef::rtrim(Chars)
rtrim(text, r, chars) ==
  LET hits == {k \in 0..(size(r) - 1) : text[r.b + k + 1] \notin chars}
  IN  IF hits = {} THEN [b |-> r.b, e |-> r.b]
      ELSE [b |-> r.b, e |-> r.b + Max(hits) + 1]
\* StringRef::trim(Chars)
trim(text, r, chars) == rtrim(text, ltrim(text, r, chars), chars)

Digits == <<"0", "1", "2", "3", "4", "5", "6", "7", "8", "9">>
DigitSet == {Digits[k] : k \in 1..10}
DigitVal(c) == (CHOOSE k \in 1..10 : Digits[k] = c) - 1
RECURSIVE DecVal(_)
DecVal(s) == IF s = <<>> THEN 0
             ELSE 10 * DecVal(SubSeq(s, 1, Len(s) - 1)) + DigitVal(s[Len(s)])
\* StringRef::getAsInteger(10, unsigned &): err is its return value (true on
\* failure): the string is empty, has a character that is no digit, or does
\* not fit (a string of more than 9 digits is taken not to fit).
getAsUnsigned(s) ==
  IF s = <<>> \/ Len(s) > 9 \/ \E k \in 1..Len(s) : s[k] \notin DigitSet
  THEN [err |-> TRUE, val |-> 0]
  ELSE [err |-> FALSE, val |-> DecVal(s)]
\* StringRef::getAsInteger(10, int &): an optional leading '-', then digits.
getAsSigned(s) ==
  IF s # <<>> /\ s[1] = "-"
  THEN LET u == getAsUnsigned(Tail(s))
       IN  [err |-> u.err, val |-> 0 - u.val]
  ELSE getAsUnsigned(s)

(***************************************************************************)
(* External services verifyFile calls.                                     *)
(***************************************************************************)
\* SourceManager::getLineAndColumn(...).first: the 1-based line of an
\* offset, one more than the number of line feeds before it.
getLine(text, off) == 1 + Cardinality({k \in 1..off : text[k] = "\n"})

\* Lexer::getEncodedStringSegment: the message with its escapes expanded.  A
\* backslash and the character after it stand for one character: a line
\* feed for \n, the character itself otherwise; a lone trailing backslash
\* is dropped.
RECURSIVE getEncodedStringSegment(_)
getEncodedStringSegment(s) ==
  IF s = <<>> THEN <<>>
  ELSE IF s[1] = "\\"
       THEN IF Len(s) = 1 THEN <<>>
            ELSE <<IF s[2] = "n" THEN "\n" ELSE s[2]>>
                 \o getEncodedStringSegment(SubSeq(s, 3, Len(s)))
       ELSE <<s[1]>> \o getEncodedStringSegment(Tail(s))

(***************************************************************************)
(* The annotation scanner of verifyFile.                                   *)
(***************************************************************************)
KwExpected == <<"e", "x", "p", "e", "c", "t", "e", "d", "-">>
KwNote == KwExpected \o <<"n", "o", "t", "e">>
KwWarning == KwExpected \o <<"w", "a", "r", "n", "i", "n", "g">>
KwError == KwExpected \o <<"e", "r", "r", "o", "r">>

\* getDiagKindString
getDiagKindString(Kind) ==
  CASE Kind = "DK_Error" -> "error"
    [] Kind = "DK_Warning" -> "warning"
    [] Kind = "DK_Note" -> "note"

\* The addError lambda: the report SM.GetMessage builds, an error at Loc.
\* The message is msg followed by the text detail (the part of a message
\* that is computed: an actual message, a list of fix-its).
MkErrorDetail(Loc, message, detail, FixIts) ==
  [loc |-> Loc, kind |-> "DK_Error", msg |-> message, detail |-> detail,
   fixits |-> FixIts]
MkError(Loc, message, FixIts) == MkErrorDetail(Loc, message, <<>>, FixIts)

\* Translate literal "\\n" into '\n' (the loop over fixItText).
RECURSIVE TranslateNewlines(_)
TranslateNewlines(s) ==
  IF s = <<>> THEN <<>>
  ELSE IF s[1] = "\\" /\ Len(s) > 1 /\ s[2] = "n"
       THEN <<"\n">> \o TranslateNewlines(SubSeq(s, 3, Len(s)))
       ELSE <<s[1]>> \o TranslateNewlines(Tail(s))

\* EndLoc left at the first "}}".
SkipCloseBracesNot(text, EC, EndLoc) == EndLoc

\* "Allow for close braces to appear in the replacement text": EndLoc moved
\* right while a '}' follows the "}}" found.
RECURSIVE SkipCloseBraces(_, _, _)
SkipCloseBraces(text, EC, EndLoc) ==
  IF EndLoc + 2 < size(EC) /\ at(text, EC, EndLoc + 2) = "}"
  THEN SkipCloseBraces(text, EC, EndLoc + 1)
  ELSE EndLoc

\* One fix-it clause, ExtraChecks starting with "{{" and EndLoc the index of
\* its closing "}}": the pieces of the fix-it parsed, giving either one
\* error or one ExpectedFixIt.
ParseFixIt(text, EC, EndLoc) ==
  LET FixItStr == slice(EC, 2, EndLoc)
      MinusLoc == find(text, FixItStr, <<"-">>, 0)
      StartColStr == slice(FixItStr, 0, MinusLoc)
      AfterMinus == substr(FixItStr, MinusLoc + 1)
      EqualLoc == find(text, AfterMinus, <<"=">>, 0)
      EndColStr == slice(AfterMinus, 0, EqualLoc)
      AfterEqual == substr(AfterMinus, EqualLoc + 1)
      StartCol == getAsUnsigned(str(text, StartColStr))
      EndCol == getAsUnsigned(str(text, EndColStr))
      fixItText == slice(AfterEqual, 0, EndLoc)
  IN  IF MinusLoc = NPOS
      THEN [ok |-> FALSE,
            err |-> MkError(FixItStr.b, "expected '-' in fix-it verification", <<>>)]
      ELSE IF EqualLoc = NPOS
      THEN [ok |-> FALSE,
            err |-> MkError(AfterMinus.b,
                            "expected '=' after '-' in fix-it verification", <<>>)]
      ELSE IF StartCol.err
      THEN [ok |-> FALSE,
            err |-> MkError(StartColStr.b,
                            "invalid column number in fix-it verification", <<>>)]
      ELSE IF EndCol.err
      THEN [ok |-> FALSE,
            err |-> MkError(EndColStr.b,
                            "invalid column number in fix-it verification", <<>>)]
      ELSE [ok |-> TRUE,
            fixit |-> [FixitLoc |-> StartColStr.b - 2,
                       StartCol |-> StartCol.val,
                       EndCol |-> EndCol.val,
                       Text |-> TranslateNewlines(str(text, fixItText))]]

\* "Scan for fix-its": the while loop over ExtraChecks.  acc holds the
\* errors added and the fix-its pushed so far.
RECURSIVE ScanFixIts(_, _, _)
ScanFixIts(text, EC, acc) ==
  IF ~startswith(text, EC, <<"{", "{">>) THEN acc
  ELSE
    LET EndLoc0 == find(text, EC, <<"}", "}">>, 0)
        NoClose == MkError(EC.b,
                     "didn't find '}}' to match '{{' in fix-it verification", <<>>)
    IN  IF EndLoc0 = NPOS
        THEN [acc EXCEPT !.errs = Append(@, NoClose)]
        ELSE
          LET EndLoc == SkipCloseBraces(text, EC, EndLoc0)
              FixItStr == slice(EC, 2, EndLoc)
              Next1 == ltrim(text, substr(EC, EndLoc + 2), Whitespace)
              p == ParseFixIt(text, EC, EndLoc)
          IN  IF find_first_of(text, FixItStr, Newlines) # NPOS
              THEN [acc EXCEPT !.errs = Append(@, NoClose)]
              ELSE IF p.ok
              THEN ScanFixIts(text, Next1,
                              [acc EXCEPT !.fixits = Append(@, p.fixit)])
              ELSE ScanFixIts(text, Next1,
                              [acc EXCEPT !.errs = Append(@, p.err)])

\* The expectation pushed once, whatever its count.
CopiesOnce(x, n) == <<x>>

\* Count copies of one expectation ("Add the diagnostic the expected number
\* of times").
RECURSIVE Copies(_, _)
Copies(x, n) == IF n = 0 THEN <<>> ELSE <<x>> \o Copies(x, n - 1)

\* Expected.LineNo without the line offset.
ResolveLineNoOffset(Prev, natural, LineOffset) ==
  IF Prev # 0 THEN Prev ELSE natural

\* "unsigned LineNo = ~0U": the value of an expectation's line before it is
\* resolved, as the 32-bit signed integer of the same bits.
LineNoUnresolved == -1

\* Expected.LineNo with the line offset left out after a continuation.
ResolveLineAnchor(Prev, natural, LineOffset) ==
  IF Prev # 0 THEN Prev ELSE natural + LineOffset

\* Expected.LineNo without the continuation.
ResolveLineOwn(Prev, natural, LineOffset) == natural + LineOffset

\* Expected.LineNo: the line of the continuation anchor before it if there
\* is one, the line of the annotation otherwise, plus the line offset.  The
\* unsigned value is kept as the 32-bit signed integer of the same bits,
\* which is what findDiagnostic compares after its cast to int.
ResolveLine(Prev, natural, LineOffset) ==
  (IF Prev # 0 THEN Prev ELSE natural) + LineOffset

\* The part of the scanning loop's body that follows the line offset:
\* MatchStart and TextStartIdx are as the offset clause left them.  It
\* gives the errors added, the expectations pushed and the new value of
\* PrevExpectedContinuationLine.
ScanFromCount(text, DiagnosticLoc, Classification, MS3, TextStartIdx, LineOffset, Prev) ==
  LET Skip(err) == [errs |-> <<err>>, exps |-> <<>>, prev |-> Prev]
      CountStr == str(text, trim(text, slice(MS3, 0, TextStartIdx), Whitespace))
      HasCount == TextStartIdx > 0
      mayAppear == HasCount /\ CountStr = <<"*">>
      Parsed == getAsUnsigned(CountStr)
      Count == IF HasCount /\ ~mayAppear THEN Parsed.val ELSE 1
      \* Resync up to the '{{'.
      MS4 == IF HasCount THEN substr(MS3, TextStartIdx) ELSE MS3
      End == find(text, MS4, <<"}", "}">>, 0)
      MessageRange == slice(MS4, 2, End)
      LineNo == ResolveLine(Prev, getLine(text, MS4.b), LineOffset)
      AfterEnd0 == substr(MS4, End + 2)
      AfterEnd == substr(AfterEnd0, find_first_not_of(text, AfterEnd0, Blank))
      ExtraChecks == ltrim(text, substr(MS4, End + 2), Blank)
      fx == ScanFixIts(text, ExtraChecks, [errs |-> <<>>, fixits |-> <<>>])
      Expected == [Loc |-> DiagnosticLoc,
                   Classification |-> Classification,
                   mayAppear |-> mayAppear,
                   MessageRange |-> MessageRange,
                   MessageStr |-> getEncodedStringSegment(str(text, MessageRange)),
                   LineNo |-> LineNo,
                   Fixits |-> fx.fixits]
  IN  IF HasCount /\ ~mayAppear /\ Parsed.err
      THEN Skip(MkError(MS3.b, "expected match count before '{{'", <<>>))
      ELSE IF HasCount /\ ~mayAppear /\ Count = 0
      THEN Skip(MkError(MS3.b, "expected positive match count before '{{'", <<>>))
      ELSE IF End = NPOS
      THEN Skip(MkError(MS4.b,
             "didn't find '}}' to match '{{' in expected-warning/note/error line",
             <<>>))
      ELSE [errs |-> fx.errs,
            exps |-> Copies(Expected, Count),
            prev |-> IF startswith(text, AfterEnd, <<"\\">>) THEN LineNo ELSE 0]

\* The body of the scanning loop for the occurrence of "expected-" at offset
\* Match.
ScanMatch(text, Match, Prev) ==
  LET InputFile == [b |-> 0, e |-> Len(text)]
      None == [errs |-> <<>>, exps |-> <<>>, prev |-> Prev]
      Skip(err) == [errs |-> <<err>>, exps |-> <<>>, prev |-> Prev]
      MS0 == substr(InputFile, Match)
      Classification ==
        IF startswith(text, MS0, KwNote) THEN "DK_Note"
        ELSE IF startswith(text, MS0, KwWarning) THEN "DK_Warning"
        ELSE IF startswith(text, MS0, KwError) THEN "DK_Error"
        ELSE "none"
      KwLen == CASE Classification = "DK_Note" -> Len(KwNote)
                 [] Classification = "DK_Warning" -> Len(KwWarning)
                 [] Classification = "DK_Error" -> Len(KwError)
                 [] OTHER -> 0
      MS1 == substr(MS0, KwLen)
      \* Skip any whitespace before the {{.
      MS2 == substr(MS1, find_first_not_of(text, MS1, Blank))
      TextStartIdx == find(text, MS2, <<"{", "{">>, 0)
      HasOffset == TextStartIdx > 0 /\ at(text, MS2, 0) = "@"
      Plus == at(text, MS2, 1) = "+"
      Offs0 == rtrim(text, slice(MS2, IF Plus THEN 2 ELSE 1, TextStartIdx),
                     Whitespace)
      SpaceIndex == find(text, Offs0, <<" ">>, 0)
      Split == SpaceIndex # NPOS /\ SpaceIndex < TextStartIdx
      Delta == size(Offs0) - SpaceIndex
      MS3 == IF ~HasOffset THEN MS2
             ELSE IF Split THEN substr(MS2, TextStartIdx - Delta)
             ELSE substr(MS2, TextStartIdx)
      TextStartIdx3 == IF ~HasOffset THEN TextStartIdx
                       ELSE IF Split THEN Delta ELSE 0
      Offs == IF Split THEN slice(Offs0, 0, SpaceIndex) ELSE Offs0
      LineOffset == getAsSigned(str(text, Offs))
  IN  IF Classification = "none" THEN None
      ELSE IF TextStartIdx = NPOS
      THEN Skip(MkError(MS2.b, "expected {{ in expected-warning/note/error line",
                        <<>>))
      ELSE IF HasOffset /\ at(text, MS2, 1) \notin {"+", "-"}
      THEN Skip(MkError(MS2.b, "expected '+'/'-' for line offset", <<>>))
      ELSE IF HasOffset /\ LineOffset.err
      THEN Skip(MkError(MS3.b, "expected line offset before '{{'", <<>>))
      ELSE ScanFromCount(text, Match, Classification, MS3, TextStartIdx3,
                         IF HasOffset THEN LineOffset.val ELSE 0, Prev)

(***************************************************************************)
(* The matcher of verifyFile.                                              *)
(***************************************************************************)
\* A vector whose erase takes nothing out.
eraseNothing(seq, k) == seq

\* vector::erase of the element at index k (counted from 1).
erase(seq, k) == SubSeq(seq, 1, k - 1) \o SubSeq(seq, k + 1, Len(seq))
\* The expectations left in the order of the scan.
reverseNot(seq) == seq

RECURSIVE reverse(_)
reverse(seq) == IF seq = <<>> THEN <<>> ELSE Append(reverse(Tail(seq)), Head(seq))

\* StringRef::find on two texts: whether pat occurs in s.
contains(s, pat) == find(s, [b |-> 0, e |-> Len(s)], pat, 0) # NPOS

\* findDiagnostic comparing the messages for equality.
findDiagnosticEqual(pool, Expected, BufferName) ==
  LET hits == {k \in 1..Len(pool) :
                 /\ pool[k].line = Expected.LineNo
                 /\ pool[k].file = BufferName
                 /\ pool[k].kind = Expected.Classification
                 /\ pool[k].msg = Expected.MessageStr}
  IN  IF hits = {} THEN 0 ELSE Min(hits)

\* findDiagnostic without the comparison of the file names.
findDiagnosticAnyFile(pool, Expected, BufferName) ==
  LET hits == {k \in 1..Len(pool) :
                 /\ pool[k].line = Expected.LineNo
                 /\ pool[k].kind = Expected.Classification
                 /\ contains(pool[k].msg, Expected.MessageStr)}
  IN  IF hits = {} THEN 0 ELSE Min(hits)

\* DiagnosticVerifier::findDiagnostic: the index in the pool of the first
\* diagnostic that matches Expected, 0 for CapturedDiagnostics.end().
findDiagnostic(pool, Expected, BufferName) ==
  LET hits == {k \in 1..Len(pool) :
                 /\ pool[k].line = Expected.LineNo
                 /\ pool[k].file = BufferName
                 /\ pool[k].kind = Expected.Classification
                 /\ contains(pool[k].msg, Expected.MessageStr)}
  IN  IF hits = {} THEN 0 ELSE Min(hits)

\* getColumnNumber
getColumnNumber(buffer, loc) ==
  LET UpToLoc == slice([b |-> 0, e |-> Len(buffer)], 0, loc)
      NewlinePos == find_last_of(buffer, UpToLoc, Newlines)
  IN  IF NewlinePos # NPOS THEN size(UpToLoc) - NewlinePos ELSE size(UpToLoc)

\* checkForFixIt without its comparison of the text.
checkForFixItColumns(Expected, D, buffer) ==
  \E k \in 1..Len(D.fixits) :
    /\ getColumnNumber(buffer, D.fixits[k].b) = Expected.StartCol
    /\ getColumnNumber(buffer, D.fixits[k].e) = Expected.EndCol

\* checkForFixIt
checkForFixIt(Expected, D, buffer) ==
  \E k \in 1..Len(D.fixits) :
    /\ D.fixits[k].text = Expected.Text
    /\ getColumnNumber(buffer, D.fixits[k].b) = Expected.StartCol
    /\ getColumnNumber(buffer, D.fixits[k].e) = Expected.EndCol

\* operator<< of an unsigned: its decimal digits.
RECURSIVE ToDec(_)
ToDec(n) == IF n < 10 THEN <<Digits[n + 1]>>
            ELSE ToDec(n \div 10) \o <<Digits[(n % 10) + 1]>>

\* The " {{c1-c2=text}}" list of the actual fix-its of a diagnostic.
RECURSIVE ActualFixIts(_, _)
ActualFixIts(fixits, buffer) ==
  IF fixits = <<>> THEN <<>>
  ELSE <<" ", "{", "{">>
       \o ToDec(getColumnNumber(buffer, fixits[1].b)) \o <<"-">>
       \o ToDec(getColumnNumber(buffer, fixits[1].e)) \o <<"=">>
       \o fixits[1].text \o <<"}", "}">>
       \o ActualFixIts(Tail(fixits), buffer)

\* "Verify that any expected fix-its are present in the diagnostic": the
\* errors added for the expected fix-its of Expected, in their order.
RECURSIVE FixItErrors(_, _, _)
FixItErrors(Fixits, Found, buffer) ==
  IF Fixits = <<>> THEN <<>>
  ELSE (IF checkForFixIt(Fixits[1], Found, buffer) THEN <<>>
        ELSE <<MkErrorDetail(Fixits[1].FixitLoc,
                 IF Found.fixits = <<>> THEN "expected fix-it not seen"
                 ELSE "expected fix-it not seen; actual fix-its:",
                 ActualFixIts(Found.fixits, buffer), <<>>)>>)
       \o FixItErrors(Tail(Fixits), Found, buffer)

\* The first loop keeping every expectation it found a diagnostic for.
RemoveNever(expected) == FALSE

\* The first loop erasing every expectation it found a diagnostic for.
RemoveAlways(expected) == TRUE

\* Whether the first loop erases an expectation it found a diagnostic for
\* ("remove it... unless we allow an arbitrary number of diagnostics").
RemoveAfterMatch(expected) == ~expected.mayAppear

\* The search of the second loop: the first diagnostic of the pool with the
\* file, the line and the classification of expected, 0 if there is none.
findIncorrect(pool, expected, BufferName) ==
  LET hits == {k \in 1..Len(pool) :
                 /\ pool[k].line = expected.LineNo
                 /\ pool[k].file = BufferName
                 /\ pool[k].kind = expected.Classification}
  IN  IF hits = {} THEN 0 ELSE Min(hits)

\* The report of the second loop with a fix-it that covers the braces too.
IncorrectMessageErrorBraces(expected, D) ==
  MkError(expected.MessageRange.b, "incorrect message found",
          <<[b |-> expected.MessageRange.b - 2, e |-> expected.MessageRange.e + 2,
             text |-> D.msg]>>)

\* The report of the second loop for expected and the diagnostic D found:
\* its fix-it replaces the message range by the actual message.
IncorrectMessageError(expected, D) ==
  MkError(expected.MessageRange.b, "incorrect message found",
          <<[b |-> expected.MessageRange.b, e |-> expected.MessageRange.e,
             text |-> D.msg]>>)

\* "Diagnose expected diagnostics that didn't appear."
RECURSIVE NotProducedErrors(_)
NotProducedErrors(exps) ==
  IF exps = <<>> THEN <<>>
  ELSE <<MkError(exps[1].Loc,
                 "expected " \o getDiagKindString(exps[1].Classification)
                   \o " not produced", <<>>)>>
       \o NotProducedErrors(Tail(exps))

\* The last loop without the comparison of the file names.
RECURSIVE UnexpectedErrorsAnyFile(_, _)
UnexpectedErrorsAnyFile(pool, BufferName) ==
  IF pool = <<>> THEN <<>>
  ELSE <<MkErrorDetail(pool[1].loc,
           "unexpected " \o getDiagKindString(pool[1].kind) \o " produced: ",
           pool[1].msg, <<>>)>>
       \o UnexpectedErrorsAnyFile(Tail(pool), BufferName)

\* "Verify that there are no diagnostics (in MemoryBuffer) left in the
\* list": one error for each diagnostic of the buffer left in the pool.
RECURSIVE UnexpectedErrors(_, _)
UnexpectedErrors(pool, BufferName) ==
  IF pool = <<>> THEN <<>>
  ELSE (IF pool[1].file # BufferName THEN <<>>
        ELSE <<MkErrorDetail(pool[1].loc,
                 "unexpected " \o getDiagKindString(pool[1].kind)
                   \o " produced: ", pool[1].msg, <<>>)>>)
       \o UnexpectedErrors(Tail(pool), BufferName)

\* std::sort: every order of the elements idxs of seq that ascends by the
\* keys (std::sort does not specify the order of elements with equal keys).
RECURSIVE SortedOrders(_, _, _)
SortedOrders(seq, keys, idxs) ==
  IF idxs = {} THEN {<<>>}
  ELSE LET least == {k \in idxs : \A j \in idxs : keys[k] <= keys[j]}
       IN  UNION {{<<seq[k]>> \o rest :
                     rest \in SortedOrders(seq, keys, idxs \ {k})} : k \in least}
\* The errors left in the order they were added in.
SortByLocNot(errs) == {errs}

\* The sort of the errors by their address in the memory buffer.
SortByLoc(errs) ==
  SortedOrders(errs, [k \in 1..Len(errs) |-> errs[k].loc], 1..Len(errs))

(***************************************************************************)
(* autoApplyFixes                                                          *)
(***************************************************************************)
\* "Walk the list of diagnostics, pulling out any fixits".
RECURSIVE CollectFixIts(_)
CollectFixIts(diags) ==
  IF diags = <<>> THEN <<>> ELSE diags[1].fixits \o CollectFixIts(Tail(diags))

\* The fix-its left in the order they were collected in.
SortByStartNot(FixIts) == {FixIts}

\* "Sort the fixits by their start location."
SortByStart(FixIts) ==
  SortedOrders(FixIts, [k \in 1..Len(FixIts) |-> FixIts[k].b], 1..Len(FixIts))

\* The assertion compiled out.
NoOverlapAssertOff(LastPos, fix) == TRUE

\* The assertion of the loop: "Cannot handle overlapping fixits".
NoOverlapAssert(LastPos, fix) == LastPos <= fix.b

\* The loop over the sorted fix-its and the append that follows it: the new
\* text, or the failure of the assertion.
RECURSIVE ApplyFixes(_, _, _, _)
ApplyFixes(buffer, FixIts, LastPos, Result) ==
  IF FixIts = <<>>
  THEN [ok |-> TRUE, text |-> Result \o SubSeq(buffer, LastPos + 1, Len(buffer))]
  ELSE IF ~NoOverlapAssert(LastPos, FixIts[1])
  THEN [ok |-> FALSE, text |-> Result]
  ELSE ApplyFixes(buffer, Tail(FixIts), FixIts[1].e,
                  Result \o SubSeq(buffer, LastPos + 1, FixIts[1].b)
                         \o FixIts[1].text)

(***************************************************************************)
(* The state.                                                              *)
(***************************************************************************)
VARIABLES
  buffers,        \* the source manager's buffers: BufferID -> [name, text]
  BufferIDs,      \* the buffers verifyDiagnostics is asked to verify
  tool,           \* the diagnostics the producing tool may emit
  handler,        \* whether VerifyModeDiagnosticHook is the diag handler
  CapturedDiagnostics,
  pc,             \* where the run is
  bi,             \* the index in BufferIDs of the buffer being verified
  Match, PrevExpectedContinuationLine, ExpectedDiagnostics, Errors, i,
                  \* the locals of verifyFile
  HadError,       \* the local of verifyDiagnostics
  printed,        \* the reports printed to llvm::errs(), with their buffer
  files,          \* the files on disk: name -> [written, text]
  scanned,        \* the expectations and the errors as the scanner left them
  pool0           \* the pool as verifyFile found it

vars == <<buffers, BufferIDs, tool, handler, CapturedDiagnostics, pc, bi, Match,
          PrevExpectedContinuationLine, ExpectedDiagnostics, Errors, i,
          HadError, printed, files, scanned, pool0>>

env == <<buffers, BufferIDs, tool>>

\* verifyDiagnostics: "bool autoApplyFixes = true;"
shouldAutoApplyFixes == TRUE

BufferID == BufferIDs[bi]
InputFile == buffers[BufferID].text
BufferName == buffers[BufferID].name

(***************************************************************************)
(* The operations.                                                         *)
(***************************************************************************)
\* VerifyModeDiagnosticHook / addDiagnostic: the tool emits a diagnostic
\* while the hook is registered.
AddDiagnostic(d) ==
  /\ pc = "capture"
  /\ handler
  /\ Len(CapturedDiagnostics) < MaxPool
  /\ CapturedDiagnostics' = Append(CapturedDiagnostics, d)
  /\ UNCHANGED <<env, handler, pc, bi, Match, PrevExpectedContinuationLine,
                 ExpectedDiagnostics, Errors, i, HadError, printed, files,
                 scanned, pool0>>

\* verifyDiagnostics without its reset of the handler.
VerifyDiagnosticsKeepHandler ==
  /\ pc = "capture"
  /\ HadError' = FALSE
  /\ bi' = 1
  /\ pc' = IF BufferIDs = <<>> THEN "done" ELSE "verifyFile"
  /\ UNCHANGED <<env, handler, CapturedDiagnostics, Match,
                 PrevExpectedContinuationLine, ExpectedDiagnostics, Errors, i,
                 printed, files, scanned, pool0>>

\* verifyDiagnostics up to its loop: the handler is reset.
VerifyDiagnostics ==
  /\ pc = "capture"
  /\ handler' = FALSE
  /\ HadError' = FALSE
  /\ bi' = 1
  /\ pc' = IF BufferIDs = <<>> THEN "done" ELSE "verifyFile"
  /\ UNCHANGED <<env, CapturedDiagnostics, Match, PrevExpectedContinuationLine,
                 ExpectedDiagnostics, Errors, i, printed, files, scanned, pool0>>

\* verifyFile up to the first search for "expected-".
VerifyFileBegin ==
  /\ pc = "verifyFile"
  /\ Errors' = <<>>
  /\ PrevExpectedContinuationLine' = 0
  /\ ExpectedDiagnostics' = <<>>
  /\ Match' = find(InputFile, [b |-> 0, e |-> Len(InputFile)], KwExpected, 0)
  /\ pool0' = CapturedDiagnostics
  /\ scanned' = [exps |-> <<>>, errs |-> <<>>]
  /\ pc' = "scan"
  /\ UNCHANGED <<env, handler, CapturedDiagnostics, bi, i, HadError, printed,
                 files>>

\* One iteration of the scanning loop.
ScanStep ==
  /\ pc = "scan"
  /\ Match # NPOS
  /\ LET r == ScanMatch(InputFile, Match, PrevExpectedContinuationLine)
     IN  /\ Errors' = Errors \o r.errs
         /\ ExpectedDiagnostics' = ExpectedDiagnostics \o r.exps
         /\ PrevExpectedContinuationLine' = r.prev
  /\ Match' = find(InputFile, [b |-> 0, e |-> Len(InputFile)], KwExpected,
                   Match + 1)
  /\ UNCHANGED <<env, handler, CapturedDiagnostics, pc, bi, i, HadError,
                 printed, files, scanned, pool0>>

\* The end of the scanning loop: the expectations are reversed and the
\* first matching loop starts at their end.
ScanDone ==
  /\ pc = "scan"
  /\ Match = NPOS
  /\ scanned' = [exps |-> ExpectedDiagnostics, errs |-> Errors]
  /\ ExpectedDiagnostics' = reverse(ExpectedDiagnostics)
  /\ i' = Len(ExpectedDiagnostics)
  /\ pc' = "phase1"
  /\ UNCHANGED <<env, handler, CapturedDiagnostics, bi, Match,
                 PrevExpectedContinuationLine, Errors, HadError, printed,
                 files, pool0>>

\* One iteration of the loop "Make sure all the expected diagnostics
\* appeared".  The i of the source after its decrement is i - 1 here, and
\* ExpectedDiagnostics[i] is the expectation examined.
Phase1Step ==
  /\ pc = "phase1"
  /\ i # 0
  /\ LET expected == ExpectedDiagnostics[i]
         Found == findDiagnostic(CapturedDiagnostics, expected, BufferName)
     IN  IF Found = 0
         THEN /\ ExpectedDiagnostics' =
                   IF expected.mayAppear THEN erase(ExpectedDiagnostics, i)
                   ELSE ExpectedDiagnostics
              /\ i' = i - 1
              /\ UNCHANGED <<Errors, CapturedDiagnostics>>
         ELSE /\ Errors' = Errors \o FixItErrors(expected.Fixits,
                                       CapturedDiagnostics[Found], InputFile)
              /\ CapturedDiagnostics' = erase(CapturedDiagnostics, Found)
              /\ IF RemoveAfterMatch(expected)
                 THEN /\ ExpectedDiagnostics' = erase(ExpectedDiagnostics, i)
                      /\ i' = i - 1
                 ELSE /\ i' = i
                      /\ UNCHANGED ExpectedDiagnostics
  /\ UNCHANGED <<env, handler, pc, bi, Match, PrevExpectedContinuationLine,
                 HadError, printed, files, scanned, pool0>>

\* The first loop left before it has examined every expectation.
Phase1DoneEarly ==
  /\ pc = "phase1"
  /\ i' = Len(ExpectedDiagnostics)
  /\ pc' = "phase2"
  /\ UNCHANGED <<env, handler, CapturedDiagnostics, bi, Match,
                 PrevExpectedContinuationLine, ExpectedDiagnostics, Errors,
                 HadError, printed, files, scanned, pool0>>

Phase1Done ==
  /\ pc = "phase1"
  /\ i = 0
  /\ i' = Len(ExpectedDiagnostics)
  /\ pc' = "phase2"
  /\ UNCHANGED <<env, handler, CapturedDiagnostics, bi, Match,
                 PrevExpectedContinuationLine, ExpectedDiagnostics, Errors,
                 HadError, printed, files, scanned, pool0>>

\* One iteration of the loop "Check to see if we have any incorrect
\* diagnostics".
Phase2Step ==
  /\ pc = "phase2"
  /\ i # 0
  /\ LET expected == ExpectedDiagnostics[i]
         I == findIncorrect(CapturedDiagnostics, expected, BufferName)
     IN  IF I = 0
         THEN UNCHANGED <<Errors, CapturedDiagnostics, ExpectedDiagnostics>>
         ELSE /\ Errors' = Append(Errors,
                     IncorrectMessageError(expected, CapturedDiagnostics[I]))
              /\ CapturedDiagnostics' = erase(CapturedDiagnostics, I)
              /\ ExpectedDiagnostics' = erase(ExpectedDiagnostics, i)
  /\ i' = i - 1
  /\ UNCHANGED <<env, handler, pc, bi, Match, PrevExpectedContinuationLine,
                 HadError, printed, files, scanned, pool0>>

Phase2Done ==
  /\ pc = "phase2"
  /\ i = 0
  /\ pc' = "leftovers"
  /\ UNCHANGED <<env, handler, CapturedDiagnostics, bi, Match,
                 PrevExpectedContinuationLine, ExpectedDiagnostics, Errors, i,
                 HadError, printed, files, scanned, pool0>>

\* The expectations and the diagnostics left over are diagnosed.
Leftovers ==
  /\ pc = "leftovers"
  /\ ExpectedDiagnostics' = reverse(ExpectedDiagnostics)
  /\ Errors' = Errors \o NotProducedErrors(reverse(ExpectedDiagnostics))
                      \o UnexpectedErrors(CapturedDiagnostics, BufferName)
  /\ pc' = "sort"
  /\ UNCHANGED <<env, handler, CapturedDiagnostics, bi, Match,
                 PrevExpectedContinuationLine, i, HadError, printed, files,
                 scanned, pool0>>

\* SourceMgr::PrintMessage: a registered handler gets the diagnostic; with
\* none it is printed.
RECURSIVE AsPrinted(_, _)
AsPrinted(errs, id) ==
  IF errs = <<>> THEN <<>>
  ELSE <<[buffer |-> id, report |-> errs[1]]>> \o AsPrinted(Tail(errs), id)

\* The errors are sorted and emitted.
SortAndEmit ==
  /\ pc = "sort"
  /\ \E sorted \in SortByLoc(Errors) :
       /\ Errors' = sorted
       /\ IF handler
          THEN /\ CapturedDiagnostics' = CapturedDiagnostics \o
                    [k \in 1..Len(sorted) |->
                       [file |-> BufferName,
                        line |-> getLine(InputFile, sorted[k].loc),
                        kind |-> sorted[k].kind, msg |-> sorted[k].detail,
                        loc |-> sorted[k].loc, fixits |-> sorted[k].fixits]]
               /\ UNCHANGED printed
          ELSE /\ printed' = printed \o AsPrinted(sorted, BufferID)
               /\ UNCHANGED CapturedDiagnostics
  /\ pc' = IF shouldAutoApplyFixes THEN "apply" ELSE "return"
  /\ UNCHANGED <<env, handler, bi, Match, PrevExpectedContinuationLine,
                 ExpectedDiagnostics, i, HadError, files, scanned, pool0>>

\* autoApplyFixes(BufferID, Errors).  A failed assertion ends the process.
AutoApplyFixes ==
  /\ pc = "apply"
  /\ LET FixIts == CollectFixIts(Errors)
     IN  IF FixIts = <<>>
         THEN /\ pc' = "return"
              /\ UNCHANGED files
         ELSE \E sorted \in SortByStart(FixIts) :
                LET r == ApplyFixes(InputFile, sorted, 0, <<>>)
                IN  IF r.ok
                    THEN /\ files' = [files EXCEPT ![BufferName] =
                                        [written |-> TRUE, text |-> r.text]]
                         /\ pc' = "return"
                    ELSE /\ pc' = "aborted"
                         /\ UNCHANGED files
  /\ UNCHANGED <<env, handler, CapturedDiagnostics, bi, Match,
                 PrevExpectedContinuationLine, ExpectedDiagnostics, Errors, i,
                 HadError, printed, scanned, pool0>>

\* A loop of verifyDiagnostics that ends with the first buffer in error.
VerifyFileReturnStop ==
  /\ pc = "return"
  /\ HadError' = (HadError \/ Errors # <<>>)
  /\ IF bi < Len(BufferIDs) /\ Errors = <<>>
     THEN /\ bi' = bi + 1
          /\ pc' = "verifyFile"
     ELSE /\ pc' = "done"
          /\ UNCHANGED bi
  /\ UNCHANGED <<env, handler, CapturedDiagnostics, Match,
                 PrevExpectedContinuationLine, ExpectedDiagnostics, Errors, i,
                 printed, files, scanned, pool0>>

\* verifyFile returns !Errors.empty() and verifyDiagnostics goes on with
\* the next buffer, or deletes the verifier and returns.
VerifyFileReturn ==
  /\ pc = "return"
  /\ HadError' = (HadError \/ Errors # <<>>)
  /\ IF bi < Len(BufferIDs)
     THEN /\ bi' = bi + 1
          /\ pc' = "verifyFile"
     ELSE /\ pc' = "done"
          /\ UNCHANGED bi
  /\ UNCHANGED <<env, handler, CapturedDiagnostics, Match,
                 PrevExpectedContinuationLine, ExpectedDiagnostics, Errors, i,
                 printed, files, scanned, pool0>>

(***************************************************************************)
(* The inputs: buffers with annotations, and the diagnostics a tool may    *)
(* emit for them.                                                          *)
(***************************************************************************)
Open == <<"{", "{">>
Close == <<"}", "}">>
NL == <<"\n">>

\* An annotation: the marker, its clauses (line offset, count), the message
\* and what follows it.
Ann(kw, clauses, msg, rest) == kw \o clauses \o <<" ">> \o Open \o msg \o Close \o rest

\* The offset of the first byte of a line of a text.
LineStart(text, line) ==
  IF line = 1 THEN 0
  ELSE Min({k \in 1..Len(text) : text[k] = "\n" /\ getLine(text, k) = line})

\* A diagnostic of the tool at the start of a line of a buffer.
DiagAt(buf, line, kind, msg, fixits) ==
  [file |-> buf.name, line |-> line, kind |-> kind, msg |-> msg,
   loc |-> LineStart(buf.text, line), fixits |-> fixits]

MsgABC == <<"a", "b", "c">>
MsgB == <<"b">>

\* The second buffer of every run: one annotation on its only line.
BufB == [name |-> "B", text |-> <<"z", " ">> \o Ann(KwError, <<>>, MsgB, <<>>)]

\* A first buffer of two lines with one annotation on the first.
BufA(kw, clauses, msg, rest) ==
  [name |-> "A",
   text |-> <<"x", " ">> \o Ann(kw, clauses, msg, rest) \o NL \o <<"y">>]

\* The diagnostics of the matching runs: for the annotated line of A an
\* error with a long and one with a short message and a warning, an error
\* for the other line of A, and an error for B.
MatchTool(A) ==
  {DiagAt(A, 1, "DK_Error", MsgABC, <<>>),
   DiagAt(A, 1, "DK_Error", MsgB, <<>>),
   DiagAt(A, 1, "DK_Warning", MsgABC, <<>>),
   DiagAt(A, 2, "DK_Error", MsgABC, <<>>),
   DiagAt(BufB, 1, "DK_Error", MsgABC, <<>>)}

Run(A, t) == [buffers |-> <<A, BufB>>, ids |-> <<1, 2>>, tool |-> t]

\* Messages that occur in the tool's messages as a whole, a prefix, a
\* suffix, an inner part, the empty one, and one that does not occur.
Patterns == {<<"b">>, <<"a", "b">>, <<"b", "c">>, MsgABC, <<>>, <<"d">>}

\* One annotation, of every pattern.
MessageRuns ==
  {Run(BufA(KwError, <<>>, m, <<>>), MatchTool(BufA(KwError, <<>>, m, <<>>))) :
     m \in Patterns}

\* One annotation with a count, a wildcard, or another severity.
Counts == {<<" ">> \o ToDec(n) : n \in 1..MaxCount} \cup {<<" ", "*">>}
CountRuns ==
  {Run(BufA(KwError, c, MsgB, <<>>), MatchTool(BufA(KwError, c, MsgB, <<>>))) :
     c \in Counts}
  \cup {Run(BufA(kw, <<>>, MsgB, <<>>), MatchTool(BufA(kw, <<>>, MsgB, <<>>))) :
          kw \in {KwWarning, KwNote}}

\* A count or a wildcard whose message no diagnostic of the tool has.
MsgD == <<"d">>
WrongCountRuns ==
  {Run(BufA(KwError, c, MsgD, <<>>), MatchTool(BufA(KwError, c, MsgD, <<>>))) :
     c \in {<<" ", "2">>, <<" ", "*">>}}

\* A wildcard followed on its line by a second annotation.
TwoAnn == <<" ">> \o Ann(KwError, <<>>, <<"a", "b">>, <<>>)
WildcardRuns ==
  {Run(BufA(KwError, <<" ", "*">>, MsgB, TwoAnn),
       MatchTool(BufA(KwError, <<" ", "*">>, MsgB, TwoAnn)))}

\* n lines of plain text, each ended by a line feed.
RECURSIVE PlainLines(_)
PlainLines(n) == IF n = 0 THEN <<>> ELSE <<"p">> \o NL \o PlainLines(n - 1)

\* The line offset clause with a sign and a number.
OffsetClause(sign, K) == <<" ", "@", sign>> \o ToDec(K)

\* The lines of a buffer with an offset annotation.
NumLines == 3 + MaxOffset
\* A buffer with one annotation, on its line L, that has a line offset.
LineBuf(L, sign, K) ==
  [name |-> "A",
   text |-> PlainLines(L - 1)
            \o <<"x", " ">> \o Ann(KwError, OffsetClause(sign, K), MsgB, <<>>)
            \o NL \o PlainLines(NumLines - L - 1) \o <<"q">>]

\* For every line of such a buffer, an error with the message.
LineTool(A) == {DiagAt(A, l, "DK_Error", MsgABC, <<>>) : l \in 1..NumLines}

LineRuns ==
  {[buffers |-> <<LineBuf(L, sign, K)>>, ids |-> <<1>>,
    tool |-> LineTool(LineBuf(L, sign, K))] :
     L \in 1..3, sign \in {"+", "-"}, K \in 0..MaxOffset}

\* A fix-it clause for the columns [c1, c2) and a replacement.
FixClause(c1, c2, T) ==
  <<" ">> \o Open \o ToDec(c1) \o <<"-">> \o ToDec(c2) \o <<"=">> \o T \o Close

\* A buffer with one annotation, on its line L, with fix-it clauses.
FixBuf(L, clauses) ==
  [name |-> "A",
   text |-> PlainLines(L - 1)
            \o <<"x", " ">> \o Ann(KwError, <<>>, MsgB, clauses) \o NL \o <<"y">>]

\* The fix-it of the tool that replaces the columns [c1, c2), counted from
\* 1, of a line of a buffer.
ColFix(buf, L, c1, c2, T) ==
  [b |-> LineStart(buf.text, L) + c1 - 1, e |-> LineStart(buf.text, L) + c2 - 1,
   text |-> T]

TextQ == <<"q">>
TextR == <<"r">>

\* Errors for the annotated line: without a fix-it, with the fix-it of the
\* first clause, with that and the one of the second clause, and with
\* another replacement.
FixTool(buf, L) ==
  {DiagAt(buf, L, "DK_Error", MsgABC, fx) :
     fx \in {<<>>,
             <<ColFix(buf, L, 1, 2, TextQ)>>,
             <<ColFix(buf, L, 1, 2, TextQ), ColFix(buf, L, 2, 3, TextR)>>,
             <<ColFix(buf, L, 1, 2, TextR)>>}}

ClauseLists == {FixClause(1, 2, TextQ), FixClause(1, 2, TextQ) \o FixClause(2, 3, TextR)}

FixRuns ==
  {[buffers |-> <<FixBuf(L, cl)>>, ids |-> <<1>>, tool |-> FixTool(FixBuf(L, cl), L)] :
     L \in 1..2, cl \in ClauseLists}

\* The clauses of a first annotation, each with its line offset.
FirstClauses ==
  {<<<<>>, 0>>, <<OffsetClause("+", 1), 1>>, <<OffsetClause("-", 1), -1>>,
   <<<<" ", "2">>, 0>>, <<<<" ", "*">>, 0>>}

Backslash == <<" ", "\\">>
MsgAB == <<"a", "b">>

\* A buffer whose line 2 has two annotations, the first with clauses, with
\* or without a fix-it clause, and a backslash at its end.
ContBuf(c1, fix) ==
  [name |-> "A",
   text |-> PlainLines(1) \o <<"x", " ">>
            \o Ann(KwError, c1,
                   MsgB, (IF fix THEN FixClause(1, 2, TextQ) ELSE <<>>) \o Backslash)
            \o <<" ">> \o Ann(KwError, <<>>, MsgAB, <<>>) \o NL \o <<"y">>]

ContTool(A) == {DiagAt(A, l, "DK_Error", MsgABC, <<>>) : l \in 2..3}

ContRuns ==
  {[buffers |-> <<ContBuf(c[1], fix)>>, ids |-> <<1>>,
    tool |-> ContTool(ContBuf(c[1], fix))] : c \in FirstClauses, fix \in BOOLEAN}

\* A buffer with two annotations on its first line that one diagnostic
\* can satisfy both: {{b}} first and {{ab}} after it.
OrderBuf ==
  BufA(KwError, <<>>, MsgB, <<" ">> \o Ann(KwError, <<>>, MsgAB, <<>>))

\* An error that has both messages and one that has none of them.
OrderTool == {DiagAt(OrderBuf, 1, "DK_Error", m, <<>>) : m \in {MsgABC, MsgD}}

OrderRuns == {[buffers |-> <<OrderBuf>>, ids |-> <<1>>, tool |-> OrderTool]}

\* What follows the severity in an annotation that is not well formed: no
\* "{{" and no "}}" on its line, a line offset without a sign or without
\* a number, a count that is no number or zero.
Malformed ==
  {<<" ", "b">>,
   <<" ", "{", "{", "a">>,
   <<" ", "@", "x", " ">> \o Open \o <<"a">> \o Close,
   <<" ", "@", "+", "x", " ">> \o Open \o <<"a">> \o Close,
   <<" ", "z", " ">> \o Open \o <<"a">> \o Close,
   <<" ", "0", " ">> \o Open \o <<"a">> \o Close}

\* A buffer with such an annotation on line 1 and a well-formed one on
\* line 2.
MalBuf(bad) ==
  [name |-> "A",
   text |-> <<"x", " ">> \o KwError \o bad \o NL
            \o <<"y", " ">> \o Ann(KwError, <<>>, MsgB, <<>>)]

MalTool(A) == {DiagAt(A, l, "DK_Error", MsgABC, <<>>) : l \in 1..2}

MalRuns ==
  {[buffers |-> <<MalBuf(bad)>>, ids |-> <<1>>, tool |-> MalTool(MalBuf(bad))] :
     bad \in Malformed}

Scenarios ==
  MessageRuns \cup CountRuns \cup WrongCountRuns \cup WildcardRuns \cup LineRuns
    \cup FixRuns \cup ContRuns \cup OrderRuns \cup MalRuns

Init ==
  \E sc \in Scenarios :
    /\ buffers = sc.buffers
    /\ BufferIDs = sc.ids
    /\ tool = sc.tool
    /\ files = [n \in {sc.buffers[k].name : k \in 1..Len(sc.buffers)} |->
                  [written |-> FALSE,
                   text |-> (CHOOSE b \in {sc.buffers[k] : k \in 1..Len(sc.buffers)} :
                               b.name = n).text]]
    /\ handler = TRUE
    /\ CapturedDiagnostics = <<>>
    /\ pc = "capture"
    /\ bi = 0
    /\ Match = NPOS
    /\ PrevExpectedContinuationLine = 0
    /\ ExpectedDiagnostics = <<>>
    /\ Errors = <<>>
    /\ i = 0
    /\ HadError = FALSE
    /\ printed = <<>>
    /\ scanned = [exps |-> <<>>, errs |-> <<>>]
    /\ pool0 = <<>>

Next ==
  \/ \E d \in tool : AddDiagnostic(d)
  \/ VerifyDiagnostics
  \/ VerifyFileBegin
  \/ ScanStep
  \/ ScanDone
  \/ Phase1Step
  \/ Phase1Done
  \/ Phase2Step
  \/ Phase2Done
  \/ Leftovers
  \/ SortAndEmit
  \/ AutoApplyFixes
  \/ VerifyFileReturn

Spec == Init /\ [][Next]_vars

(***************************************************************************)
(* autoApplyFixes on its own: the verifier stands at the call of line 507  *)
(* with a list of reports, up to MaxFix of them, in any order.  A report   *)
(* carries no fix-it or one, as the reports of verifyFile do, and the      *)
(* range of a fix-it is a range of message text, which is not empty when   *)
(* the report is made (an empty message is found in every diagnostic).     *)
(***************************************************************************)
ApplyText == <<"a", "b", "c">>

ApplyBuf == [name |-> "A", text |-> ApplyText]

Replacements == {<<>>, <<"X", "Y">>}

ApplyFixIts ==
  {[b |-> b, e |-> e, text |-> t] :
     b \in 0..Len(ApplyText), e \in 0..Len(ApplyText), t \in Replacements}

ApplyReports ==
  {MkError(f.b, "incorrect message found", <<f>>) : f \in {g \in ApplyFixIts : g.b < g.e}}
    \cup {MkError(0, "expected error not produced", <<>>)}

RECURSIVE ReportLists(_)
ReportLists(n) ==
  IF n = 0 THEN {<<>>}
  ELSE ReportLists(n - 1)
         \cup {Append(l, r) : l \in {m \in ReportLists(n - 1) : Len(m) = n - 1},
                              r \in ApplyReports}

InitApply ==
  /\ buffers = <<ApplyBuf>>
  /\ BufferIDs = <<1>>
  /\ tool = {}
  /\ files = [n \in {"A"} |-> [written |-> FALSE, text |-> ApplyText]]
  /\ handler = FALSE
  /\ CapturedDiagnostics = <<>>
  /\ pc = "apply"
  /\ bi = 1
  /\ Match = NPOS
  /\ PrevExpectedContinuationLine = 0
  /\ ExpectedDiagnostics = <<>>
  /\ \E l \in ReportLists(MaxFix) :
       /\ Errors = l
       /\ printed = AsPrinted(l, 1)
  /\ i = 0
  /\ HadError = FALSE
  /\ scanned = [exps |-> <<>>, errs |-> <<>>]
  /\ pool0 = <<>>

NextApply ==
  \/ AutoApplyFixes
  \/ VerifyFileReturn

SpecApply == InitApply /\ [][NextApply]_vars

(***************************************************************************)
(* The verifier run a second time: the file autoApplyFixes has written is  *)
(* the buffer of the next run, and the tool emits what it emitted before.  *)
(***************************************************************************)
\* A message with a backslash and an n in it, and one with "}}" in it.
MsgEsc == <<"a", "\\", "n">>
MsgBraces == <<"a", "}", "}", "b">>

RerunBuf == BufA(KwError, <<>>, MsgD, <<>>)

RerunTool ==
  {DiagAt(RerunBuf, 1, "DK_Error", m, <<>>) : m \in {MsgABC, MsgEsc, MsgBraces}}

RerunRuns == {[buffers |-> <<RerunBuf>>, ids |-> <<1>>, tool |-> RerunTool]}

InitRerun ==
  \E sc \in RerunRuns :
    /\ buffers = sc.buffers
    /\ BufferIDs = sc.ids
    /\ tool = sc.tool
    /\ files = [n \in {"A"} |-> [written |-> FALSE, text |-> sc.buffers[1].text]]
    /\ handler = TRUE
    /\ CapturedDiagnostics = <<>>
    /\ pc = "capture"
    /\ bi = 0
    /\ Match = NPOS
    /\ PrevExpectedContinuationLine = 0
    /\ ExpectedDiagnostics = <<>>
    /\ Errors = <<>>
    /\ i = 0
    /\ HadError = FALSE
    /\ printed = <<>>
    /\ scanned = [exps |-> <<>>, errs |-> <<>>]
    /\ pool0 = <<>>

\* The next run on a rewritten file: enableDiagnosticVerifier, the tool
\* with its diagnostics of the run before (pool0, the pool the one buffer
\* was verified against), and verifyDiagnostics up to its loop.
Rerun ==
  /\ pc = "done"
  /\ Len(BufferIDs) = 1
  /\ \E k \in 1..Len(buffers) :
       /\ files[buffers[k].name].written
       /\ files[buffers[k].name].text # buffers[k].text
  /\ buffers' = [k \in 1..Len(buffers) |->
                   [name |-> buffers[k].name, text |-> files[buffers[k].name].text]]
  /\ files' = [n \in DOMAIN files |-> [written |-> FALSE, text |-> files[n].text]]
  /\ CapturedDiagnostics' = pool0
  /\ handler' = FALSE
  /\ HadError' = FALSE
  /\ bi' = 1
  /\ pc' = "verifyFile"
  /\ printed' = <<>>
  /\ UNCHANGED <<BufferIDs, tool, Match, PrevExpectedContinuationLine,
                 ExpectedDiagnostics, Errors, i, scanned, pool0>>

NextRerun ==
  \/ \E d \in tool : AddDiagnostic(d)
  \/ VerifyDiagnostics
  \/ VerifyFileBegin
  \/ ScanStep
  \/ ScanDone
  \/ Phase1Step
  \/ Phase1Done
  \/ Phase2Step
  \/ Phase2Done
  \/ Leftovers
  \/ SortAndEmit
  \/ AutoApplyFixes
  \/ VerifyFileReturn
  \/ Rerun

SpecRerun == InitRerun /\ [][NextRerun]_vars

(***************************************************************************)
(* Runs on buffers that exercise the scanner: continuation over lines,     *)
(* fix-it clauses that are not well formed, replacement texts.             *)
(***************************************************************************)
\* The clauses of the annotation after a continuation anchor, each with its
\* line offset and whether it is well formed.
NextClauses ==
  {<<<<>>, 0, TRUE>>, <<OffsetClause("+", 1), 1, TRUE>>,
   <<OffsetClause("-", 1), -1, TRUE>>, <<<<" ", "2">>, 0, TRUE>>,
   <<<<" ", "z">>, 0, FALSE>>}

\* An error annotation on line 1 with a backslash at its end, after its
\* message or after a fix-it clause; a note annotation on line 2, with or
\* without a backslash; a warning annotation on line 3.
ChainBuf(c1, fix, c2, chain) ==
  [name |-> "A",
   text |-> <<"x", " ">>
            \o Ann(KwError, c1, MsgB,
                   (IF fix THEN FixClause(1, 2, TextQ) ELSE <<>>) \o Backslash)
            \o NL \o <<" ", " ">>
            \o Ann(KwNote, c2, MsgAB, IF chain THEN Backslash ELSE <<>>)
            \o NL \o <<"z", " ">> \o Ann(KwWarning, <<>>, MsgABC, <<>>)]

ScanTool(A) == {DiagAt(A, 1, "DK_Note", MsgABC, <<>>)}

ChainRuns ==
  {[buffers |-> <<ChainBuf(c1, fix, c2[1], chain)>>, ids |-> <<1>>,
    tool |-> ScanTool(ChainBuf(c1, fix, c2[1], chain))] :
     c1 \in {<<>>, OffsetClause("+", 1)}, fix \in BOOLEAN,
     c2 \in NextClauses, chain \in BOOLEAN}

\* Fix-it clauses that are not well formed: no '-', no '=', a column that
\* is no number (the first, the second), no closing braces.
BadClauses ==
  {<<" ">> \o Open \o <<"1", "2", "=", "q">> \o Close,
   <<" ">> \o Open \o <<"1", "-", "2", "q">> \o Close,
   <<" ">> \o Open \o <<"x", "-", "2", "=", "q">> \o Close,
   <<" ">> \o Open \o <<"1", "-", "y", "=", "q">> \o Close,
   <<" ">> \o Open \o <<"1", "-", "2", "=", "q">>}

\* An annotation with such a clause on line 1, followed or not by a well
\* formed clause, and an annotation on line 2.
BadFixBuf(bad, more) ==
  [name |-> "A",
   text |-> <<"x", " ">>
            \o Ann(KwError, <<>>, MsgB,
                   bad \o (IF more THEN FixClause(2, 3, TextR) ELSE <<>>))
            \o NL \o <<"y", " ">> \o Ann(KwNote, <<>>, MsgAB, <<>>)]

BadFixRuns ==
  {[buffers |-> <<BadFixBuf(bad, more)>>, ids |-> <<1>>,
    tool |-> ScanTool(BadFixBuf(bad, more))] :
     bad \in BadClauses, more \in BOOLEAN}

\* The replacement texts of up to MaxText characters over a letter, the
\* close brace, the backslash and 'n'.
TextChars == {"a", "}", "\\", "n"}

Texts == UNION {[1..n -> TextChars] : n \in 0..MaxText}

\* An annotation on line 1 with one fix-it clause for the replacement T.
TextBuf(T) ==
  [name |-> "A",
   text |-> <<"x", " ">> \o Ann(KwError, <<>>, MsgB, FixClause(1, 2, T))
            \o NL \o <<"y">>]

TextRuns ==
  {[buffers |-> <<TextBuf(T)>>, ids |-> <<1>>, tool |-> ScanTool(TextBuf(T))] :
     T \in Texts}

ScanRuns == ChainRuns \cup BadFixRuns \cup TextRuns

InitScan ==
  \E sc \in ScanRuns :
    /\ buffers = sc.buffers
    /\ BufferIDs = sc.ids
    /\ tool = sc.tool
    /\ files = [n \in {"A"} |-> [written |-> FALSE, text |-> sc.buffers[1].text]]
    /\ handler = TRUE
    /\ CapturedDiagnostics = <<>>
    /\ pc = "capture"
    /\ bi = 0
    /\ Match = NPOS
    /\ PrevExpectedContinuationLine = 0
    /\ ExpectedDiagnostics = <<>>
    /\ Errors = <<>>
    /\ i = 0
    /\ HadError = FALSE
    /\ printed = <<>>
    /\ scanned = [exps |-> <<>>, errs |-> <<>>]
    /\ pool0 = <<>>

SpecScan == InitScan /\ [][Next]_vars

(***************************************************************************)
(* Runs of the matcher on its own inputs: two annotations of one line in   *)
(* both orders with two diagnostics in every order of capture, and the     *)
(* runs with a wildcard, a count, and messages no diagnostic has.          *)
(***************************************************************************)
\* Two annotations on line 1, messages m1 and m2.
PairBuf(m1, m2) ==
  [name |-> "A",
   text |-> <<"x", " ">>
            \o Ann(KwError, <<>>, m1, <<" ">> \o Ann(KwError, <<>>, m2, <<>>))
            \o NL \o <<"y">>]

\* An error that has both messages and one that has the shorter only.
PairTool(A) == {DiagAt(A, 1, "DK_Error", m, <<>>) : m \in {MsgABC, MsgB}}

PairRuns ==
  {[buffers |-> <<PairBuf(m[1], m[2])>>, ids |-> <<1>>,
    tool |-> PairTool(PairBuf(m[1], m[2]))] :
     m \in {<<MsgB, MsgAB>>, <<MsgAB, MsgB>>}}

MatchRuns == PairRuns \cup OrderRuns \cup WildcardRuns \cup WrongCountRuns

InitMatch ==
  \E sc \in MatchRuns :
    /\ buffers = sc.buffers
    /\ BufferIDs = sc.ids
    /\ tool = sc.tool
    /\ files = [n \in {sc.buffers[k].name : k \in 1..Len(sc.buffers)} |->
                  [written |-> FALSE,
                   text |-> (CHOOSE b \in {sc.buffers[k] : k \in 1..Len(sc.buffers)} :
                               b.name = n).text]]
    /\ handler = TRUE
    /\ CapturedDiagnostics = <<>>
    /\ pc = "capture"
    /\ bi = 0
    /\ Match = NPOS
    /\ PrevExpectedContinuationLine = 0
    /\ ExpectedDiagnostics = <<>>
    /\ Errors = <<>>
    /\ i = 0
    /\ HadError = FALSE
    /\ printed = <<>>
    /\ scanned = [exps |-> <<>>, errs |-> <<>>]
    /\ pool0 = <<>>

SpecMatch == InitMatch /\ [][Next]_vars

\* The first loop runs on: an iteration that can be made is made, and the
\* statement after the loop is reached when the loop is done.
SpecMatchFair == SpecMatch /\ WF_vars(Phase1Step) /\ WF_vars(Phase1Done)

(***************************************************************************)
(* Properties.                                                             *)
(***************************************************************************)
\* The errors of the buffer being verified are complete (sorted, printed).
Verified == pc \in {"apply", "return", "aborted"}

\* pat occurs in s.
Occurs(pat, s) ==
  \E k \in 0..(Len(s) - Len(pat)) : SubSeq(s, k + 1, k + Len(pat)) = pat

\* The diagnostics of a pool addressed to a file, and the others.
Mine(pool, name) == SelectSeq(pool, LAMBDA d : d.file = name)
Others(pool, name) == SelectSeq(pool, LAMBDA d : d.file # name)

\* A diagnostic agrees with an expectation on file, line and severity.
Agrees(e, d, name) ==
  d.file = name /\ d.line = e.LineNo /\ d.kind = e.Classification
\* ... and the message of the expectation occurs in its message.
Satisfies(e, d, name) == Agrees(e, d, name) /\ Occurs(e.MessageStr, d.msg)

\* The reports with a given message.
Reports(errs, m) == SelectSeq(errs, LAMBDA r : r.msg = m)
NotProducedMsgs ==
  {"expected error not produced", "expected warning not produced",
   "expected note not produced"}
UnexpectedMsgs ==
  {"unexpected error produced: ", "unexpected warning produced: ",
   "unexpected note produced: "}
Unexpected(errs) == SelectSeq(errs, LAMBDA r : r.msg \in UnexpectedMsgs)
NotProduced(errs) == SelectSeq(errs, LAMBDA r : r.msg \in NotProducedMsgs)

\* The buffer holds one annotation, without fix-it clauses, and the pool
\* one diagnostic of the buffer.
OneOnOne ==
  /\ scanned.errs = <<>>
  /\ Len(scanned.exps) = 1
  /\ scanned.exps[1].Fixits = <<>>
  /\ Len(Mine(pool0, BufferName)) = 1

\* C1: exact match is by substring.  One expectation and one diagnostic of
\* the buffer that agree on file, line and severity, the decoded message of
\* the expectation occurring in the message of the diagnostic: verifyFile
\* yields no report and the diagnostic has left the pool.
C1_SubstringMatch ==
  (Verified /\ OneOnOne
     /\ Satisfies(scanned.exps[1], Mine(pool0, BufferName)[1], BufferName))
  => /\ Errors = <<>>
     /\ Mine(CapturedDiagnostics, BufferName) = <<>>

\* C1 happens: the message of the expectation is a proper inner part of the
\* message of the diagnostic.
C1_Witness ==
  /\ Verified /\ OneOnOne
  /\ Satisfies(scanned.exps[1], Mine(pool0, BufferName)[1], BufferName)
  /\ scanned.exps[1].MessageStr = <<"b">>
  /\ Mine(pool0, BufferName)[1].msg = MsgABC
  /\ ~scanned.exps[1].mayAppear
  /\ Errors = <<>>

\* The buffer is the first buffer with the one annotation given.
IsBufA(kw, clauses, msg) ==
  /\ BufferName = "A"
  /\ InputFile = BufA(kw, clauses, msg, <<>>).text

Kinds == {<<KwError, "DK_Error">>, <<KwWarning, "DK_Warning">>, <<KwNote, "DK_Note">>}

\* C2: multiplicity.  An annotation with the count N and K diagnostics of
\* the buffer, all of which agree with it and have its message: no report
\* for K = N; for K = N + 1 one report, an "unexpected ... produced"; for
\* K = N - 1 one report, an "expected ... not produced".
C2_Multiplicity ==
  \A N \in 1..MaxCount :
    (/\ Verified
     /\ IsBufA(KwError, <<" ">> \o ToDec(N), MsgB)
     /\ \A k \in 1..Len(Mine(pool0, "A")) :
          LET d == Mine(pool0, "A")[k]
          IN  d.line = 1 /\ d.kind = "DK_Error" /\ Occurs(MsgB, d.msg))
    => LET K == Len(Mine(pool0, "A"))
       IN  /\ K = N => Errors = <<>>
           /\ K = N + 1 => /\ Len(Errors) = 1
                           /\ Errors[1].msg = "unexpected error produced: "
           /\ K = N - 1 => /\ Len(Errors) = 1
                           /\ Errors[1].msg = "expected error not produced"

\* C2 happens: a count of 2 met by three diagnostics, one of them reported.
C2_Witness ==
  /\ Verified
  /\ IsBufA(KwError, <<" ", "2">>, MsgB)
  /\ Len(pool0) = 3
  /\ \A k \in 1..3 : Satisfies(scanned.exps[1], pool0[k], "A")
  /\ Len(Errors) = 1
  /\ Errors[1].msg = "unexpected error produced: "

\* An expectation of the buffer whose annotation is written with a '*'.
Starred(e) == InputFile[e.MessageRange.b - 3] = "*"

\* C3: wildcard.  An expectation marked '*' (without fix-it clauses) causes
\* no report, however many diagnostics have its file, line, severity and
\* message: no "not produced" at its marker, no "incorrect message found" at
\* its message; and none of these diagnostics is left in the pool.
C3_Wildcard ==
  Verified =>
    \A k \in 1..Len(scanned.exps) :
      LET e == scanned.exps[k]
      IN  (Starred(e) /\ e.Fixits = <<>>) =>
            /\ \A j \in 1..Len(Errors) :
                 /\ ~(Errors[j].loc = e.Loc /\ Errors[j].msg \in NotProducedMsgs)
                 /\ ~(Errors[j].loc = e.MessageRange.b
                        /\ Errors[j].msg = "incorrect message found")
            /\ \A j \in 1..Len(CapturedDiagnostics) :
                 ~Satisfies(e, CapturedDiagnostics[j], BufferName)

\* C3 happens: a wildcard that consumed two diagnostics or more.
C3_Witness ==
  /\ Verified
  /\ \E k \in 1..Len(scanned.exps) :
       /\ Starred(scanned.exps[k])
       /\ Cardinality({j \in 1..Len(pool0) :
                         Satisfies(scanned.exps[k], pool0[j], BufferName)}) >= 2
  /\ Errors = <<>>

\* C4: line offset.  The annotation of line L written with @+K (with @-K) is
\* bound to line L + K (L - K) only: one diagnostic of its severity and
\* message satisfies it if and only if it is on that line.
C4_LineOffset ==
  \A L \in 1..3, K \in 0..MaxOffset, sign \in {"+", "-"} :
    (/\ Verified
     /\ BufferName = "A"
     /\ InputFile = LineBuf(L, sign, K).text)
    => LET bound == IF sign = "+" THEN L + K ELSE L - K
           mine == Mine(pool0, "A")
       IN  /\ Len(scanned.exps) = 1
           /\ scanned.exps[1].LineNo = bound
           /\ (/\ Len(mine) = 1
               /\ mine[1].kind = "DK_Error"
               /\ Occurs(MsgB, mine[1].msg))
              => (Errors = <<>> <=> mine[1].line = bound)

\* C4 happens: an annotation of line 2 with @+2 met by the diagnostic of
\* line 4.
C4_Witness ==
  /\ Verified
  /\ BufferName = "A"
  /\ InputFile = LineBuf(2, "+", 2).text
  /\ Len(pool0) = 1 /\ pool0[1].line = 4
  /\ scanned.exps[1].LineNo = 4
  /\ Errors = <<>>

\* The one expectation of the buffer has no diagnostic with its message in
\* the pool, but one with its line and severity.
WrongMessage ==
  /\ scanned.errs = <<>>
  /\ Len(scanned.exps) = 1
  /\ ~scanned.exps[1].mayAppear
  /\ \A k \in 1..Len(pool0) : ~Satisfies(scanned.exps[1], pool0[k], BufferName)
  /\ \E k \in 1..Len(pool0) : Agrees(scanned.exps[1], pool0[k], BufferName)

\* C5: incorrect message.  An expectation (not a wildcard, which C3 is
\* about) without an exact match, the pool holding a diagnostic of the
\* buffer with its line and severity: exactly one "incorrect message found",
\* anchored at the start of the message text, with one fix-it whose range is
\* the text between "{{" and "}}" and whose replacement is the message of
\* the diagnostic; the diagnostic is consumed, no "not produced" is emitted,
\* and every other diagnostic of the buffer is reported as unexpected.
C5_IncorrectMessage ==
  (Verified /\ WrongMessage) =>
    LET e == scanned.exps[1]
        first == Min({k \in 1..Len(pool0) : Agrees(e, pool0[k], BufferName)})
        inc == Reports(Errors, "incorrect message found")
    IN  /\ Len(inc) = 1
        /\ Len(inc[1].fixits) = 1
        /\ LET f == inc[1].fixits[1]
           IN  /\ inc[1].loc = f.b
               /\ f.b >= e.Loc
               /\ SubSeq(InputFile, f.b - 1, f.b) = Open
               /\ SubSeq(InputFile, f.e + 1, f.e + 2) = Close
               /\ ~Occurs(Close, SubSeq(InputFile, f.b + 1, f.e))
               /\ f.text = pool0[first].msg
        /\ CapturedDiagnostics = erase(pool0, first)
        /\ NotProduced(Errors) = <<>>
        /\ Len(Unexpected(Errors)) = Len(Mine(pool0, BufferName)) - 1
        /\ Len(Errors) = Len(Mine(pool0, BufferName))

\* C5 happens: the annotation {{d}} and an error "abc" on its line.
C5_Witness ==
  /\ Verified /\ WrongMessage
  /\ scanned.exps[1].MessageStr = MsgD
  /\ Len(Mine(pool0, BufferName)) = 1
  /\ pool0[1].msg = MsgABC
  /\ Len(Errors) = 1
  /\ Errors[1].msg = "incorrect message found"
  /\ Errors[1].fixits[1].text = MsgABC

\* The report of a diagnostic left over.
UnexpectedReport(d) ==
  [loc |-> d.loc, kind |-> "DK_Error",
   msg |-> "unexpected " \o getDiagKindString(d.kind) \o " produced: ",
   detail |-> d.msg, fixits |-> <<>>]

\* C6, as claimed: after verifyFile(B) has returned no entry of the pool has
\* the file identifier of B.
C6_NoneLeft ==
  pc = "return" => Mine(CapturedDiagnostics, BufferName) = <<>>

\* C6, amended: after verifyFile(B) has returned, the entries of the pool
\* with the file identifier of B are the diagnostics it has reported as
\* unexpected, each as often as it is left, and nothing else.
C6_LeftAreReported ==
  pc = "return" =>
    LET left == Mine(CapturedDiagnostics, BufferName)
        un == Unexpected(Errors)
    IN  /\ Len(left) = Len(un)
        /\ \A k \in 1..Len(left) :
             Cardinality({j \in 1..Len(left) :
                            UnexpectedReport(left[j]) = UnexpectedReport(left[k])})
               = Cardinality({j \in 1..Len(un) : un[j] = UnexpectedReport(left[k])})

\* C6 happens: of the diagnostics of the buffer one was consumed and another
\* one is left in the pool.
C6_Witness ==
  /\ pc = "return"
  /\ Len(Mine(CapturedDiagnostics, BufferName)) >= 1
  /\ Len(Mine(CapturedDiagnostics, BufferName)) < Len(Mine(pool0, BufferName))

\* C7: the frame of verifyFile(B).  The entries of the pool with another
\* file identifier stay in the pool, in their order, all through the
\* verification of B, and none of them is reported.
C7_Frame ==
  /\ pc \in {"scan", "phase1", "phase2", "leftovers", "sort", "apply",
             "return", "aborted"}
       => Others(CapturedDiagnostics, BufferName) = Others(pool0, BufferName)
  /\ Verified =>
       /\ Len(Unexpected(Errors)) <= Len(Mine(pool0, BufferName))
       /\ \A k \in 1..Len(Errors) :
            Errors[k].msg \in UnexpectedMsgs =>
              \E j \in 1..Len(pool0) :
                pool0[j].file = BufferName /\ Errors[k] = UnexpectedReport(pool0[j])

\* C7 happens: the first buffer is verified, a diagnostic of it is consumed,
\* and the two diagnostics of the other buffer around it are still there.
C7_Witness ==
  /\ pc = "return"
  /\ bi = 1
  /\ Len(pool0) = 3
  /\ pool0[1].file = "B" /\ pool0[2].file = "A" /\ pool0[3].file = "B"
  /\ CapturedDiagnostics = <<pool0[1], pool0[3]>>

\* The fix-its handed to autoApplyFixes, and the call being over.
Given == CollectFixIts(Errors)

Applied == pc \in {"return", "aborted", "verifyFile", "done"}

\* Two of the fix-its share a byte.
Overlapping(fix) ==
  \E j \in 1..Len(fix), k \in 1..Len(fix) :
    j # k /\ fix[j].b < fix[k].e /\ fix[k].b < fix[j].e

\* The buffer from offset p on with every range of F replaced by its text.
RECURSIVE Rewrite(_, _, _)
Rewrite(buffer, F, p) ==
  IF p >= Len(buffer) THEN <<>>
  ELSE IF \E f \in F : f.b = p
  THEN LET f == CHOOSE g \in F : g.b = p
       IN  f.text \o Rewrite(buffer, F, f.e)
  ELSE <<buffer[p + 1]>> \o Rewrite(buffer, F, p + 1)

\* C8: overlapping fix-its are fatal.  Given two fix-its that overlap,
\* autoApplyFixes stops at its assertion; the file is not written and keeps
\* its text.
C8_OverlapIsFatal ==
  (Applied /\ Overlapping(Given)) =>
    /\ pc = "aborted"
    /\ ~files[BufferName].written
    /\ files[BufferName].text = InputFile

\* C8 happens: [0,2) and [1,3), and the run stopped at the assertion.
C8_Witness ==
  /\ pc = "aborted"
  /\ Len(Given) = 2
  /\ Given[1].b = 0 /\ Given[1].e = 2
  /\ Given[2].b = 1 /\ Given[2].e = 3
  /\ ~files[BufferName].written

\* C9: the result of autoApplyFixes.  For fix-its that do not overlap, in
\* any order, the file gets the buffer with every range replaced by its
\* text and every byte outside the ranges kept once and in order.
C9_FixApplierResult ==
  (Applied /\ Given # <<>> /\ ~Overlapping(Given)) =>
    /\ pc # "aborted"
    /\ files[BufferName].written
    /\ files[BufferName].text
         = Rewrite(InputFile, {Given[k] : k \in 1..Len(Given)}, 0)

\* C9 happens: [2,3) given before [0,1), the first replaced by "XY" and the
\* second by nothing: "abc" becomes "bXY".
C9_Witness ==
  /\ pc = "return"
  /\ Given = <<[b |-> 2, e |-> 3, text |-> <<"X", "Y">>],
               [b |-> 0, e |-> 1, text |-> <<>>]>>
  /\ files[BufferName].written
  /\ files[BufferName].text = <<"b", "X", "Y">>

\* C10, as claimed: once the reports of a buffer are emitted and
\* autoApplyFixes is over, the file of the buffer has been written if and
\* only if auto-apply is on and a report of the buffer carries a fix-it.
C10_WrittenIffFixIt ==
  (pc \in {"return", "aborted"}) =>
    (files[BufferName].written
       <=> (shouldAutoApplyFixes
              /\ \E k \in 1..Len(printed) :
                   /\ printed[k].buffer = BufferID
                   /\ printed[k].report.fixits # <<>>))

\* C11, as claimed: auto-apply is idempotent.  In the run on the file that
\* the fix-it of the "incorrect message found" report has rewritten, with
\* the diagnostics of the run before, no "incorrect message found" report
\* is made.
C11_Idempotent ==
  (pc = "apply" /\ InputFile # RerunBuf.text) =>
    Reports(Errors, "incorrect message found") = <<>>

\* C12, as claimed: the fix-it round trip.  One annotated error on line 1
\* or 2 with the clause {{1-2=q}}, met by the one diagnostic that carries
\* the fix-it replacing the columns [1, 2) of that line with "q":
\* verification yields no report.
C12_FixItRoundTrip ==
  \A L \in 1..2 :
    LET buf == FixBuf(L, FixClause(1, 2, TextQ))
    IN  (/\ Verified
         /\ InputFile = buf.text
         /\ pool0 = <<DiagAt(buf, L, "DK_Error", MsgABC,
                             <<ColFix(buf, L, 1, 2, TextQ)>>)>>)
        => Errors = <<>>

\* The column, counted from 1, of an offset of a buffer: the offset minus
\* the index of the last line break before it, the first line counting as
\* if a line break stood before the buffer.
OneBasedColumn(buffer, off) ==
  off - Max({k - 1 : k \in {j \in 1..off : buffer[j] \in {"\n", "\r"}}} \cup {-1})

\* C13, as claimed: for every offset of the buffer getColumnNumber is the
\* column counted from 1, on the first line as on the others.
C13_ColumnIsOneBased ==
  pc = "phase1" =>
    \A off \in 0..Len(InputFile) :
      getColumnNumber(InputFile, off) = OneBasedColumn(InputFile, off)

FixItMsgs ==
  {"expected fix-it not seen", "expected fix-it not seen; actual fix-its:"}

\* The one expectation of the buffer has fix-it clauses and a diagnostic of
\* the pool matches it exactly.
MatchedWithFixIts ==
  /\ scanned.errs = <<>>
  /\ Len(scanned.exps) = 1
  /\ scanned.exps[1].Fixits # <<>>
  /\ \E k \in 1..Len(pool0) : Satisfies(scanned.exps[1], pool0[k], BufferName)

\* C20: fix-its on an exact match.  Every expected fix-it for which the
\* matched diagnostic has no fix-it with the same text and the same start
\* and end columns (as getColumnNumber gives them) gets one "expected
\* fix-it not seen" report, anchored at the "{{" of its clause; the others
\* get none, the fix-its of the diagnostic that no clause names get none,
\* and the diagnostic leaves the pool in every case.
C20_FixItsOnMatch ==
  (Verified /\ MatchedWithFixIts) =>
    LET e == scanned.exps[1]
        first == Min({k \in 1..Len(pool0) : Satisfies(e, pool0[k], BufferName)})
        d == pool0[first]
        fx == SelectSeq(Errors, LAMBDA r : r.msg \in FixItMsgs)
        Present(f) ==
          \E k \in 1..Len(d.fixits) :
            /\ d.fixits[k].text = f.Text
            /\ getColumnNumber(InputFile, d.fixits[k].b) = f.StartCol
            /\ getColumnNumber(InputFile, d.fixits[k].e) = f.EndCol
    IN  /\ \A j \in 1..Len(e.Fixits) :
             /\ Cardinality({k \in 1..Len(fx) : fx[k].loc = e.Fixits[j].FixitLoc})
                  = (IF Present(e.Fixits[j]) THEN 0 ELSE 1)
             /\ SubSeq(InputFile, e.Fixits[j].FixitLoc + 1, e.Fixits[j].FixitLoc + 2)
                  = Open
             /\ e.Fixits[j].FixitLoc > e.MessageRange.e
        /\ \A k \in 1..Len(fx) :
             /\ \E j \in 1..Len(e.Fixits) : fx[k].loc = e.Fixits[j].FixitLoc
             /\ fx[k].msg = (IF d.fixits = <<>> THEN "expected fix-it not seen"
                             ELSE "expected fix-it not seen; actual fix-its:")
        /\ CapturedDiagnostics = erase(pool0, first)
        /\ Len(Errors) = Len(fx) + Len(Mine(pool0, BufferName)) - 1

\* C20 happens: the clauses {{1-2=q}} and {{2-3=r}} on line 2 and a
\* diagnostic with the first fix-it only: one report, at the second clause,
\* and the diagnostic is gone.
C20_Witness ==
  LET buf == FixBuf(2, FixClause(1, 2, TextQ) \o FixClause(2, 3, TextR))
  IN  /\ Verified /\ MatchedWithFixIts
      /\ InputFile = buf.text
      /\ pool0 = <<DiagAt(buf, 2, "DK_Error", MsgABC, <<ColFix(buf, 2, 1, 2, TextQ)>>)>>
      /\ Len(Errors) = 1
      /\ Errors[1].msg = "expected fix-it not seen; actual fix-its:"
      /\ Errors[1].loc = scanned.exps[1].Fixits[2].FixitLoc
      /\ CapturedDiagnostics = <<>>

PrintedHere ==
  LET mine == SelectSeq(printed, LAMBDA p : p.buffer = BufferID)
  IN  [k \in 1..Len(mine) |-> mine[k].report]

\* C15: the final ordering.  The reports of one verifyFile call, of all
\* kinds, are printed and handed to autoApplyFixes in ascending order of
\* their location in the buffer.
C15_FinalOrdering ==
  Verified =>
    /\ \A j \in 1..Len(Errors), k \in 1..Len(Errors) :
         j < k => Errors[j].loc <= Errors[k].loc
    /\ PrintedHere = Errors

\* C15 happens: a report of a malformed annotation, and after it an
\* "unexpected" report that was made after a "not produced" report and
\* stands before it, by its location.
C15_Witness ==
  /\ Verified
  /\ \E j \in 1..Len(Errors), k \in 1..Len(Errors) :
       /\ j < k
       /\ Errors[j].msg \in UnexpectedMsgs
       /\ Errors[k].msg \in NotProducedMsgs
       /\ Errors[j].loc < Errors[k].loc
  /\ \E j \in 1..Len(Errors) : Errors[j].msg = "expected match count before '{{'"
  /\ PrintedHere = Errors

\* C16: the result of verifyDiagnostics.  It is true exactly if a report
\* was printed for one of the buffers, and every buffer of the list has
\* been verified, in the order of the list, whether or not a buffer before
\* it had reports.
C16_Result ==
  /\ [](pc = "done" =>
          /\ HadError = (printed # <<>>)
          /\ bi = Len(BufferIDs)
          /\ \A j \in 1..Len(printed), k \in 1..Len(printed) :
               j < k => printed[j].buffer <= printed[k].buffer)
  /\ [][(pc = "return" /\ bi < Len(BufferIDs))
          => (pc' = "verifyFile" /\ bi' = bi + 1
              /\ HadError' = (HadError \/ Errors # <<>>))]_vars

\* C16 happens: the first buffer had a report of a malformed annotation or
\* another one, the second buffer was verified after it and had one too.
C16_Witness ==
  /\ pc = "done"
  /\ HadError
  /\ Len(BufferIDs) = 2
  /\ \E j \in 1..Len(printed) : printed[j].buffer = 1
  /\ \E j \in 1..Len(printed) : printed[j].buffer = 2

\* C17, as claimed: an annotation that is not well formed, on line 1,
\* gives one report and no expectation, and the annotation of line 2 after
\* it gives its expectation as if it stood alone.
C17_MalformedPolicy ==
  \A bad \in Malformed :
    (Verified /\ InputFile = MalBuf(bad).text) =>
      /\ Len(scanned.errs) = 1
      /\ getLine(InputFile, scanned.errs[1].loc) = 1
      /\ Len(scanned.exps) = 1
      /\ scanned.exps[1].MessageStr = MsgB
      /\ scanned.exps[1].LineNo = 2
      /\ getLine(InputFile, scanned.exps[1].Loc) = 2

\* C18: the protocol of capture and verification.  The handler is not
\* registered once verifyDiagnostics has begun; the pool grows only by a
\* diagnostic of the tool appended while the handler is registered, and
\* after that it only shrinks; printing a report leaves the pool alone.
C18_CaptureProtocol ==
  /\ [](pc # "capture" => ~handler)
  /\ [][CapturedDiagnostics' # CapturedDiagnostics =>
          \/ /\ pc = "capture" /\ handler
             /\ \E d \in tool : CapturedDiagnostics' = Append(CapturedDiagnostics, d)
          \/ /\ pc # "capture"
             /\ Len(CapturedDiagnostics') < Len(CapturedDiagnostics)]_vars
  /\ [][printed' # printed => CapturedDiagnostics' = CapturedDiagnostics]_vars

\* C18 happens: reports were printed for a buffer while the pool holds
\* what the tool emitted before, less what was consumed.
C18_Witness ==
  /\ pc = "return"
  /\ ~handler
  /\ printed # <<>>
  /\ Len(pool0) = MaxPool
  /\ Len(CapturedDiagnostics) < Len(pool0)

\* The report that an expectation was not produced.
NotProducedAt(loc) ==
  [loc |-> loc, kind |-> "DK_Error", msg |-> "expected error not produced",
   detail |-> <<>>, fixits |-> <<>>]

\* The offset in OrderBuf of the marker of the first and of the second
\* annotation.
FirstMarker == Len(<<"x", " ">>)
SecondMarker == FirstMarker + Len(Ann(KwError, <<>>, MsgB, <<>>)) + 1

\* C19, as claimed: of two expectations that one diagnostic can satisfy
\* both, the one later in the text consumes it and the earlier one is left
\* over, in the first pass as in the second.
C19_LastFirst ==
  (Verified /\ InputFile = OrderBuf.text /\ Len(pool0) = 1) =>
    /\ Len(scanned.exps) = 2
    /\ \E k \in 1..Len(Errors) : Errors[k] = NotProducedAt(FirstMarker)
    /\ \A k \in 1..Len(Errors) : Errors[k] # NotProducedAt(SecondMarker)

\* C19, amended: the expectations are examined in the order of the text.
\* With one diagnostic that both can take, the first one in the text takes
\* it, as an exact match or as the one with the incorrect message, and the
\* second one is reported as not produced.
C19_TextOrder ==
  (Verified /\ InputFile = OrderBuf.text /\ Len(pool0) = 1) =>
    /\ Len(scanned.exps) = 2
    /\ scanned.exps[1].Loc = FirstMarker
    /\ scanned.exps[2].Loc = SecondMarker
    /\ CapturedDiagnostics = <<>>
    /\ IF pool0[1].msg = MsgABC
       THEN Errors = <<NotProducedAt(SecondMarker)>>
       ELSE /\ Len(Errors) = 2
            /\ Errors[1].msg = "incorrect message found"
            /\ Errors[1].loc = scanned.exps[1].MessageRange.b
            /\ Errors[2] = NotProducedAt(SecondMarker)

\* C19 happens: one error "abc", taken by {{b}}; {{ab}} is not produced.
C19_Witness ==
  /\ Verified
  /\ InputFile = OrderBuf.text
  /\ Len(pool0) = 1
  /\ pool0[1].msg = MsgABC
  /\ Errors = <<NotProducedAt(SecondMarker)>>

\* The expectations of a severity, in the order of the scan.
OfKind(kind) == SelectSeq(scanned.exps, LAMBDA e : e.Classification = kind)

\* C21, as claimed: an annotation with a fix-it clause and a backslash
\* after it is a continuation anchor: the annotation of the next line gets
\* its line number.
C21_AnchorAfterFixIts ==
  \A c1 \in {<<>>, OffsetClause("+", 1)}, chain \in BOOLEAN :
    (Verified /\ InputFile = ChainBuf(c1, TRUE, <<>>, chain).text) =>
      /\ scanned.errs = <<>>
      /\ Len(OfKind("DK_Error")) = 1
      /\ Len(OfKind("DK_Note")) = 1
      /\ OfKind("DK_Note")[1].LineNo = OfKind("DK_Error")[1].LineNo

\* C22, as claimed: the annotation after a continuation anchor has the line
\* number of the anchor, whatever its clauses, and the annotation after that
\* one has its own line unless the second is an anchor too.
C22_ExactlyInherited ==
  \A c1 \in {<<>>, OffsetClause("+", 1)}, c2 \in NextClauses, chain \in BOOLEAN :
    (Verified /\ c2[3] /\ InputFile = ChainBuf(c1, FALSE, c2[1], chain).text) =>
      /\ scanned.errs = <<>>
      /\ \A k \in 1..Len(OfKind("DK_Note")) :
           OfKind("DK_Note")[k].LineNo = OfKind("DK_Error")[1].LineNo
      /\ OfKind("DK_Warning")[1].LineNo
           = (IF chain THEN OfKind("DK_Error")[1].LineNo ELSE 3)

\* C22, amended: the annotation after a continuation anchor has the line
\* number of the anchor plus its own line offset; an annotation that is not
\* well formed leaves the inheritance to the annotation after it; a well
\* formed one ends it unless it is an anchor itself with a line number
\* other than 0.
C22_InheritedPlusOffset ==
  \A c1 \in {<<>>, OffsetClause("+", 1)}, c2 \in NextClauses, chain \in BOOLEAN :
    (Verified /\ InputFile = ChainBuf(c1, FALSE, c2[1], chain).text) =>
      LET anchor == OfKind("DK_Error")[1]
          notes == OfKind("DK_Note")
          third == OfKind("DK_Warning")[1]
      IN  /\ Len(OfKind("DK_Error")) = 1
          /\ Len(OfKind("DK_Warning")) = 1
          /\ getLine(InputFile, anchor.Loc) = 1
          /\ getLine(InputFile, third.Loc) = 3
          /\ anchor.LineNo = (IF c1 = <<>> THEN 1 ELSE 2)
          /\ IF c2[3]
             THEN /\ scanned.errs = <<>>
                  /\ Len(notes) = (IF c2[1] = <<" ", "2">> THEN 2 ELSE 1)
                  /\ \A k \in 1..Len(notes) :
                       /\ getLine(InputFile, notes[k].Loc) = 2
                       /\ notes[k].LineNo = anchor.LineNo + c2[2]
                  /\ third.LineNo
                       = (IF chain /\ notes[1].LineNo # 0 THEN notes[1].LineNo ELSE 3)
             ELSE /\ Len(scanned.errs) = 1
                  /\ notes = <<>>
                  /\ third.LineNo = anchor.LineNo

\* C22 happens: the anchor on line 1 has @+1, the annotation of line 2 has
\* @+1 and a backslash: lines 2, 3 and 3.
C22_Witness ==
  /\ Verified
  /\ InputFile = ChainBuf(OffsetClause("+", 1), FALSE, OffsetClause("+", 1), TRUE).text
  /\ OfKind("DK_Error")[1].LineNo = 2
  /\ OfKind("DK_Note")[1].LineNo = 3
  /\ OfKind("DK_Warning")[1].LineNo = 3

\* C23, as claimed: a fix-it clause that is not well formed gives exactly
\* one report of the scanner and no fix-it; the clause after it is parsed,
\* the annotation gives its expectation and so does the annotation of the
\* next line.
C23_OneClauseDropped ==
  \A bad \in BadClauses, more \in BOOLEAN :
    (Verified /\ InputFile = BadFixBuf(bad, more).text) =>
      /\ Len(scanned.errs) = 1
      /\ Len(OfKind("DK_Error")) = 1
      /\ Len(OfKind("DK_Error")[1].Fixits) = (IF more THEN 1 ELSE 0)
      /\ \A k \in 1..Len(OfKind("DK_Error")[1].Fixits) :
           LET f == OfKind("DK_Error")[1].Fixits[k]
           IN  f.StartCol = 2 /\ f.EndCol = 3 /\ f.Text = TextR
      /\ Len(OfKind("DK_Note")) = 1
      /\ OfKind("DK_Note")[1].LineNo = 2

\* C24, as claimed: every expectation handed to the matcher has a line
\* number that is at least 1 and is not the value of an unresolved line.
C24_LineIsResolved ==
  pc = "phase1" =>
    \A k \in 1..Len(ExpectedDiagnostics) :
      /\ ExpectedDiagnostics[k].LineNo >= 1
      /\ ExpectedDiagnostics[k].LineNo # LineNoUnresolved

\* The fix-its of the annotation of a buffer with one annotation.
TheFixits == OfKind("DK_Error")[1].Fixits

\* C25, as claimed: a replacement over ordinary characters and '}' is the
\* text of the fix-it parsed, with "\n" decoded and nothing else changed,
\* also when it holds "}}".
C25_BracesInText ==
  \A T \in Texts :
    (Verified /\ InputFile = TextBuf(T).text) =>
      /\ scanned.errs = <<>>
      /\ Len(OfKind("DK_Error")) = 1
      /\ Len(TheFixits) = 1
      /\ TheFixits[1].Text = TranslateNewlines(T)

\* The places of a text where two close braces begin.
TwoBraces(T) == {k \in 1..Len(T) - 1 : T[k] = "}" /\ T[k + 1] = "}"}

\* The end of the close braces that begin at place k.
BracesEnd(T, k) ==
  Max({j \in k..Len(T) : \A h \in k..j : T[h] = "}"})

\* What is read of the replacement T in the clause "{{c1-c2=T}}": all of it
\* if its only "}}" are in the close braces that end it; otherwise the part
\* up to the end of the first two or more close braces in a row, without
\* the last two of them.
TextRead(T) ==
  IF TwoBraces(T) = {} \/ BracesEnd(T, Min(TwoBraces(T))) = Len(T) THEN T
  ELSE SubSeq(T, 1, BracesEnd(T, Min(TwoBraces(T))) - 2)

\* C25, amended: the clause ends with the first two or more close braces in
\* a row, the last two of them closing it.  A replacement is read whole
\* when it has no "}}" other than in the close braces at its end; otherwise
\* it is cut there, without a report.  "\n" is decoded in what is read.
C25_BracesAtTheEnd ==
  \A T \in Texts :
    (Verified /\ InputFile = TextBuf(T).text) =>
      /\ scanned.errs = <<>>
      /\ Len(OfKind("DK_Error")) = 1
      /\ Len(TheFixits) = 1
      /\ TheFixits[1].StartCol = 1
      /\ TheFixits[1].EndCol = 2
      /\ TheFixits[1].Text = TranslateNewlines(TextRead(T))

\* C25 happens: the replacement 'a}}' is read whole, and '\n}' as a line
\* feed and a close brace.
C25_Witness ==
  /\ Verified
  /\ \/ /\ InputFile = TextBuf(<<"a", "}", "}">>).text
        /\ TheFixits[1].Text = <<"a", "}", "}">>
     \/ /\ InputFile = TextBuf(<<"\\", "n", "}">>).text
        /\ TheFixits[1].Text = <<"\n", "}">>

\* The "incorrect message found" reports.
Incorrect(errs) == Reports(errs, "incorrect message found")

\* The expectation copies of the buffer that are no wildcards.
Copies1 == SelectSeq(scanned.exps, LAMBDA e : ~e.mayAppear)

\* C26: accounting of one verifyFile call.  Every step of the two loops
\* takes at most one diagnostic, one that agrees with the expectation
\* examined, and at most one expectation, the one examined; an expectation
\* copy that is no wildcard leaves together with the diagnostic it takes
\* and a wildcard either takes one diagnostic or leaves; the second loop
\* makes one "incorrect message found" report for each diagnostic it takes
\* and the first loop none.  In the end the diagnostics of the buffer still
\* in the pool are as many as the "unexpected" reports, the expectations
\* still in the list are no wildcards and as many as the "not produced"
\* reports, and the diagnostics taken without a report are as many as the
\* copies gone without a report if the buffer has no wildcard, and at least
\* as many if it has.
C26_Accounting ==
  /\ [](Verified =>
          LET D0 == Mine(pool0, BufferName)
              left == Mine(CapturedDiagnostics, BufferName)
              inc == Len(Incorrect(Errors))
              exactD == Len(D0) - Len(left) - inc
              exactE == Len(Copies1) - Len(ExpectedDiagnostics) - inc
          IN  /\ Len(Unexpected(Errors)) = Len(left)
              /\ Len(NotProduced(Errors)) = Len(ExpectedDiagnostics)
              /\ \A k \in 1..Len(ExpectedDiagnostics) :
                   ~ExpectedDiagnostics[k].mayAppear
              /\ exactE >= 0
              /\ exactD >= exactE
              /\ Len(Copies1) = Len(scanned.exps) => exactD = exactE)
  /\ [][(pc \in {"phase1", "phase2"} /\ i # 0) =>
          LET e == ExpectedDiagnostics[i]
              dD == Len(CapturedDiagnostics) - Len(CapturedDiagnostics')
              dE == Len(ExpectedDiagnostics) - Len(ExpectedDiagnostics')
          IN  /\ \/ dD = 0 /\ CapturedDiagnostics' = CapturedDiagnostics
                 \/ /\ dD = 1
                    /\ \E k \in 1..Len(CapturedDiagnostics) :
                         /\ Agrees(e, CapturedDiagnostics[k], BufferName)
                         /\ CapturedDiagnostics' = erase(CapturedDiagnostics, k)
              /\ \/ dE = 0 /\ ExpectedDiagnostics' = ExpectedDiagnostics
                 \/ dE = 1 /\ ExpectedDiagnostics' = erase(ExpectedDiagnostics, i)
              /\ ~e.mayAppear => dD = dE
              /\ e.mayAppear => pc = "phase1" /\ dD + dE = 1
              /\ Len(Incorrect(Errors')) - Len(Incorrect(Errors))
                   = (IF pc = "phase2" THEN dD ELSE 0)]_vars

\* C26 happens: two annotations and three diagnostics of their line, one
\* taken by the first annotation without a report, one reported as the
\* incorrect message of the second, one reported as unexpected.
C26_Witness ==
  /\ Verified
  /\ InputFile = OrderBuf.text
  /\ Len(Mine(pool0, BufferName)) = 3
  /\ Len(Incorrect(Errors)) = 1
  /\ Len(Unexpected(Errors)) = 1
  /\ Errors # <<>> /\ Len(Errors) = 2
  /\ ExpectedDiagnostics = <<>>

\* The one-to-one maps of 1..n onto itself.
Pairings(n) == {f \in [1..n -> 1..n] : \A a, b \in 1..n : f[a] = f[b] => a = b}

\* The expectations of the buffer, none a wildcard or with a fix-it clause,
\* can be paired one to one with all the diagnostics of the buffer, each
\* pair agreeing on line, severity and message.
Pairable ==
  LET D0 == Mine(pool0, BufferName)
  IN  /\ scanned.errs = <<>>
      /\ \A k \in 1..Len(scanned.exps) :
           ~scanned.exps[k].mayAppear /\ scanned.exps[k].Fixits = <<>>
      /\ Len(D0) = Len(scanned.exps)
      /\ \E f \in Pairings(Len(D0)) :
           \A k \in 1..Len(D0) : Satisfies(scanned.exps[k], D0[f[k]], BufferName)

\* C27, as claimed: matching is complete.  If the expectations of the
\* buffer can be paired one to one with its diagnostics, verifyFile yields
\* no report, whatever the order of the annotations and of the capture.
C27_Complete == (Verified /\ Pairable) => Errors = <<>>

\* C28, as claimed: the fix-its of the reports that verifyFile hands to
\* autoApplyFixes are pairwise non-overlapping, and the assertion of
\* autoApplyFixes never fails.
C28_NoOverlapFromVerifyFile ==
  /\ pc = "apply" => ~Overlapping(Given)
  /\ pc # "aborted"

\* C29: phase separation.  From the start of the second loop to its end the
\* expectation list holds no wildcard, and no expectation in it has, among
\* the diagnostics in the pool, one of its buffer, line and severity with
\* its message: the diagnostic an "incorrect message found" report takes is
\* no exact match of any expectation left, the reported one included.
C29_PhaseSeparation ==
  pc = "phase2" =>
    \A k \in 1..Len(ExpectedDiagnostics) :
      /\ ~ExpectedDiagnostics[k].mayAppear
      /\ \A j \in 1..Len(CapturedDiagnostics) :
           ~Satisfies(ExpectedDiagnostics[k], CapturedDiagnostics[j], BufferName)

\* C29 happens: the buffer has a wildcard, which took a diagnostic and is
\* gone, and the second loop starts with an expectation and diagnostics of
\* the buffer.
C29_Witness ==
  /\ pc = "phase2"
  /\ \E k \in 1..Len(scanned.exps) : scanned.exps[k].mayAppear
  /\ ExpectedDiagnostics # <<>>
  /\ i = Len(ExpectedDiagnostics)
  /\ Mine(CapturedDiagnostics, BufferName) # <<>>
  /\ Len(Mine(CapturedDiagnostics, BufferName)) < Len(Mine(pool0, BufferName))

\* C30: the first loop terminates.  Each of its iterations either moves the
\* index down, or keeps it on a wildcard and takes one diagnostic out of
\* the pool; a wildcard for which nothing is found is erased and the index
\* moves on; and the loop, once begun, reaches the second loop.
C30_Phase1Terminates ==
  /\ [][(pc = "phase1" /\ i # 0) =>
          LET e == ExpectedDiagnostics[i]
          IN  /\ \/ i' < i
                 \/ /\ i' = i
                    /\ e.mayAppear
                    /\ ExpectedDiagnostics' = ExpectedDiagnostics
                    /\ Len(CapturedDiagnostics') = Len(CapturedDiagnostics) - 1
              /\ (e.mayAppear /\ CapturedDiagnostics' = CapturedDiagnostics) =>
                   /\ ExpectedDiagnostics' = erase(ExpectedDiagnostics, i)
                   /\ i' = i - 1]_vars
  /\ (pc = "phase1") ~> (pc = "phase2")

\* C30 happens: a wildcard that has taken a diagnostic is examined again,
\* with diagnostics of its buffer still in the pool.
C30_Witness ==
  /\ pc = "phase1"
  /\ i # 0
  /\ ExpectedDiagnostics[i].mayAppear
  /\ Len(Mine(CapturedDiagnostics, BufferName)) < Len(Mine(pool0, BufferName))
  /\ Mine(CapturedDiagnostics, BufferName) # <<>>

=============================================================================
